---- MODULE Spec2Model ----
(***************************************************************************)
(* Gateway shard of kiera.js-native (src/unnamed/part_001, class Shard)    *)
(* as a state machine: one Shard object, the part of the Client and of the *)
(* ShardManager it talks to, its socket, its timers, and the gateway on    *)
(* the other end of the socket.                                            *)
(*                                                                         *)
(* One action is one callback of the event loop run to completion: a       *)
(* socket event, a timer, or a call by the user of the library.  What a    *)
(* callback writes to the socket (sendWS) and emits (emit) during that one *)
(* run is kept in `sent` and `events`.                                     *)
(***************************************************************************)
EXTENDS Integers, Sequences, FiniteSets, TLC

(***************************************************************************)
(* Bounds of the exploration.                                              *)
(***************************************************************************)
\* largest sequence number the gateway puts on a dispatch
MaxSeq == 2
\* most reconnect timers armed (setTimeout at line 186) and not yet fired
MaxTimers == 1
\* client.options.maxResumeAttempts as the caller configured it
\* (Client.js:133 defaults it to 10; a low value keeps the runs short)
maxResumeAttempts == 2
\* connect() calls in a row without a READY/RESUMED that are explored
MaxAttempts == maxResumeAttempts + 2

\* most member requests (nonces) made in one run
MaxRequests == 2
\* largest chunk_count the gateway splits a member list into
MaxChunks == 2
\* most clubs waiting in a queue of the shard or counted in unsyncedClubs
MaxQueued == 2
\* payloads given to sendWS in SpecBuckets
MaxSends == 3
\* clubs of the account in SpecBatch
MaxIDs == 194
\* most club-create timers left running by hardReset (line 276)
MaxOrphans == 1

\* promises of join followed
MaxJoins == 3
NULL == "null"
\* the voice channels of a club
Channels == {"c1", "c2"}
\* what a voice session reports with "error"
VoiceErrors == {"voice error"}
\* the clubs the account is in, in the order READY lists them
ClubOrder == <<"g1", "g2">>
Clubs == {ClubOrder[i] : i \in 1..Len(ClubOrder)}
\* the club whose voice joins are followed
VoiceClubs == {ClubOrder[1]}
\* the members of a club are split over its chunks: chunk k of a club
\* carries the member k and no other chunk does
ChunkMembers(chunk_index) == <<chunk_index>>
\* the session id the gateway hands out in READY
SessionIds == {"abc"}
\* close codes the socket reports; 0 is a close without a code, 4000 stands
\* for any code _onWSClose has no branch for
CloseCodes == {0, 1000, 1006, 4000, 4001, 4002, 4003, 4004, 4005, 4006, 4007,
               4008, 4009, 4010, 4011, 4013, 4014}
NoError == "none"
\* options.intents as the set of the intents given: empty when the option is
\* not given; options.intents & Constants.Intents.clubMembers is membership
MembersIntents == {"clubs", "clubMembers"}

\* the token the client was constructed with
Token == "Bot token"

VARIABLES
    shard,          \* the fields of the Shard object
    options,        \* client.options
    connectQueue,   \* client.shards: TRUE when the shard waits in the connect queue
    timers,         \* reconnect timers armed at line 186 and not yet fired
    armed,          \* delay of the reconnect timer armed by the last callback, 0 if none
    sent,           \* frames the last callback handed to the open socket, in order
    events,         \* events the last callback emitted, in order
    step,           \* the callback that ran last and its input
    pendingAuth,    \* gateway side: the IDENTIFY/RESUME it has not answered yet
    sinceResume,    \* what came back since the RESUME of this connection
    lastDisc,       \* why the shard disconnected last
    explicitOff,    \* disconnect({reconnect: false}) was called and connect()
                    \* has not been called since
    maxS,           \* largest s received in the current session
    client,         \* client.clubs, client.unavailableClubs, client.bot, client.ready
    promises,       \* the promises requestClubMembers returned, by nonce
    reqTimers,      \* nonces whose request timeout (line 486) is running
    orphans,        \* club-create timers running that no field refers to
    gateway,        \* gateway side: the account, the requests it still answers
    readyCount,     \* "ready" events emitted in the session the shard holds
    gate,           \* clubs READY listed unavailable and not created since;
                    \* whether a club-create timer fired since READY
    chunkLog,       \* by nonce of a pending request: the chunks fed so far
    voice,          \* client.voiceConnections and the promises of join
    traces,         \* payloads the last callback traced with "debug" in sendWS
    stamped,        \* timestamp fields the last callback set to the current time
    buckets         \* SpecBuckets: the functions sendWS made and the queues of
                    \* shard.globalBucket and shard.presenceUpdateBucket

vars == <<shard, options, connectQueue, timers, armed, sent, events, step,
          pendingAuth, sinceResume, lastDisc, explicitOff, maxS, client, promises,
          reqTimers, orphans, gateway, readyCount, gate, chunkLog,
          voice, traces, stamped, buckets>>

\* Math.random() * 2 + 1 at line 189, at its two ends; the factor is read
\* only when a reconnect timer is armed, which takes options.autoreconnect
Factors == IF options.autoreconnect THEN {1, 3} ELSE {1}

Min(a, b) == IF a < b THEN a ELSE b
Max(a, b) == IF a > b THEN a ELSE b

(***************************************************************************)
(* The callbacks work on a record w: the shard (w.sh), the connect queue   *)
(* (w.cq), the armed timers (w.tm) and what the callback has put out so    *)
(* far (w.sent, w.ev, w.armed).                                            *)
(***************************************************************************)
World == [sh |-> shard, cq |-> connectQueue, tm |-> timers,
          armed |-> 0, sent |-> <<>>, ev |-> <<>>,
          cl |-> client, pr |-> promises, rt |-> reqTimers, orph |-> orphans,
          gw |-> gateway, threw |-> NoError, dbg |-> <<>>, st |-> {},
          bk |-> buckets,
          vc |-> [voice EXCEPT !.calls = <<>>]]

\* a table (a JS object used as a map) with key k set, and with k deleted
Put(table, k, v) == [x \in DOMAIN table \cup {k} |-> IF x = k THEN v ELSE table[x]]
Delete(table, k) == [x \in DOMAIN table \ {k} |-> table[x]]
Elems(list) == {list[i] : i \in 1..Len(list)}

\* what a promise of requestClubMembers is settled with: a list of members
\* or a number
MemberList(list) == [kind |-> "members", list |-> list, n |-> 0]
Number(n) == [kind |-> "number", list |-> <<>>, n |-> n]
Pending == [state |-> "pending", value |-> Number(0)]
Resolved(value) == [state |-> "resolved", value |-> value]

\* res(value) of the promise of request nonce: a promise settles once
resolve(w, nonce, value) ==
    IF w.pr[nonce].state = "pending"
    THEN [w EXCEPT !.pr[nonce] = Resolved(value)]
    ELSE w

\* the listeners the ShardManager puts on a shard it spawns: the client is
\* ready when its shards are, and no longer is when none of them is
managerListeners(w, type) ==
    IF type \in {"ready", "resume"} THEN [w EXCEPT !.cl.ready = TRUE]
    ELSE IF type = "disconnect" THEN [w EXCEPT !.cl.ready = FALSE]
    ELSE w

\* Shard.emit: the event goes to the client and to the shard's listeners
emit(w, type, msg) ==
    managerListeners([w EXCEPT !.ev = Append(@, [type |-> type, msg |-> msg])], type)

\* delete _data.token
deleteToken(frame) == [x \in DOMAIN frame \ {"token"} |-> frame[x]]

\* sendWS that traces the payload before it deletes the token
sendWS_traceFirst(w, frame) ==
    IF w.sh.ws = "OPEN"
    THEN [w EXCEPT !.sent = Append(@, frame), !.dbg = Append(@, frame)]
    ELSE w

\* Shard.sendWS: only an open socket takes the frame; the global bucket has
\* a token and runs the send at once: the payload is serialized and sent,
\* then its token is deleted, then the payload is traced with "debug"
sendWS(w, frame) ==
    IF w.sh.ws = "OPEN"
    THEN [w EXCEPT !.sent = Append(@, frame), !.dbg = Append(@, deleteToken(frame))]
    ELSE w

\* Shard.requestClubSync
requestClubSync(w, clubID) == sendWS(w, [op |-> "SYNC_CLUB", d |-> clubID])

\* Shard.requestClubMembers(clubID) without options: the nonce is new, the
\* entry and its timeout are made whether or not the socket took the frame
requestClubMembers(w, clubID) ==
    LET nonce == Len(w.pr) + 1
        w1 == sendWS(w, [op |-> "GET_CLUB_MEMBERS", club_id |-> clubID,
                         nonce |-> nonce])
    IN  IF options.intents # {} /\ "clubMembers" \notin options.intents
        THEN [w EXCEPT !.threw = "Cannot request all members without clubMembers intent"]
        ELSE [w1 EXCEPT !.sh.requestMembersPromise =
                            Put(@, nonce, [received |-> 0, members |-> <<>>]),
                        !.rt = @ \cup {nonce},
                        !.pr = Append(@, Pending)]

\* the request timeout resolving with an empty list
requestTimeout_empty(w, nonce) ==
    IF nonce \in DOMAIN w.sh.requestMembersPromise
    THEN [resolve(w, nonce, MemberList(<<>>))
             EXCEPT !.sh.requestMembersPromise = Delete(@, nonce)]
    ELSE [w EXCEPT !.threw = "TypeError"]

\* the callback of the request timeout, lines 486-489
requestTimeout(w, nonce) ==
    IF nonce \in DOMAIN w.sh.requestMembersPromise
    THEN [resolve(w, nonce, MemberList(w.sh.requestMembersPromise[nonce].members))
             EXCEPT !.sh.requestMembersPromise = Delete(@, nonce)]
    ELSE [w EXCEPT !.threw = "TypeError"]

\* Shard.reset; the loop of lines 502-508 clears the timeout of every
\* request and calls its res with the field received
reset(w) ==
    LET table == w.sh.requestMembersPromise
    IN  [w EXCEPT !.sh.connecting = FALSE,
                  !.sh.ready = FALSE,
                  !.sh.preReady = FALSE,
                  !.rt = @ \ DOMAIN table,
                  !.pr = [n \in DOMAIN @ |->
                             IF n \in DOMAIN table /\ @[n].state = "pending"
                             THEN Resolved(Number(table[n].received))
                             ELSE @[n]],
                  !.sh.requestMembersPromise = <<>>,
                  !.sh.getAllUsersCount = {},
                  !.sh.getAllUsersQueue = <<>>,
                  !.sh.getAllUsersLength = 1,
                  !.sh.clubSyncQueue = <<>>,
                  !.sh.unsyncedClubs = 0,
                  !.sh.lastHeartbeatAck = TRUE,
                  !.sh.status = "disconnected",
                  !.sh.connectTimeout = FALSE]

\* hardReset that keeps seq and the backoff
hardReset_keepSeq(w) ==
    [reset(w) EXCEPT !.sh.sessionID = NULL,
                     !.sh.connectAttempts = 0,
                     !.sh.ws = "null",
                     !.sh.heartbeatInterval = FALSE,
                     !.sh.clubCreateTimeout = FALSE,
                     !.sh.presence = w.cl.presence,
                     !.orph = IF w.sh.clubCreateTimeout THEN @ + 1 ELSE @]

\* Shard.hardReset; clubCreateTimeout is set to null without clearTimeout,
\* so a timer that was running keeps running
hardReset(w) ==
    [reset(w) EXCEPT !.sh.seq = 0,
                     !.sh.sessionID = NULL,
                     !.sh.reconnectInterval = 1000,
                     !.sh.connectAttempts = 0,
                     !.sh.ws = "null",
                     !.sh.heartbeatInterval = FALSE,
                     !.sh.clubCreateTimeout = FALSE,
                     !.sh.presence = w.cl.presence,
                     !.orph = IF w.sh.clubCreateTimeout THEN @ + 1 ELSE @]

\* ShardManager.connect(shard): the shard joins the connect queue unless it
\* is in it already
shardsConnect(w) == [w EXCEPT !.cq = TRUE]

\* the tail of Shard.disconnect without the limit on resume attempts
scheduleReconnect_noLimit(w, reconnect, f) ==
    IF reconnect = "auto" /\ options.autoreconnect
    THEN IF w.sh.sessionID # NULL
         THEN shardsConnect(w)
         ELSE [w EXCEPT !.tm = @ + 1,
                        !.armed = w.sh.reconnectInterval,
                        !.sh.reconnectInterval = Min(w.sh.reconnectInterval * f, 30000)]
    ELSE IF reconnect = "false"
         THEN hardReset(w)
         ELSE w

\* the tail of Shard.disconnect without the cap on the interval
scheduleReconnect_noCap(w, reconnect, f) ==
    LET inv == IF w.sh.sessionID # NULL /\ w.sh.connectAttempts >= maxResumeAttempts
               THEN [w EXCEPT !.sh.sessionID = NULL]
               ELSE w
    IN  IF reconnect = "auto" /\ options.autoreconnect
        THEN IF inv.sh.sessionID # NULL
             THEN shardsConnect(inv)
             ELSE [inv EXCEPT !.tm = @ + 1,
                              !.armed = inv.sh.reconnectInterval,
                              !.sh.reconnectInterval = inv.sh.reconnectInterval * f]
        ELSE IF reconnect = "false"
             THEN hardReset(inv)
             ELSE inv

\* the tail of Shard.disconnect, lines 169-193; f is Math.random() * 2 + 1
scheduleReconnect(w, reconnect, f) ==
    LET inv == IF w.sh.sessionID # NULL /\ w.sh.connectAttempts >= maxResumeAttempts
               THEN [w EXCEPT !.sh.sessionID = NULL]
               ELSE w
    IN  IF reconnect = "auto" /\ options.autoreconnect
        THEN IF inv.sh.sessionID # NULL
             THEN shardsConnect(inv)
             ELSE [inv EXCEPT !.tm = @ + 1,
                              !.armed = inv.sh.reconnectInterval,
                              !.sh.reconnectInterval =
                                  Min(inv.sh.reconnectInterval * f, 30000)]
        ELSE IF reconnect = "false"
             THEN hardReset(inv)
             ELSE inv

\* Shard.disconnect(options, error); reconnect is "false", "true" or "auto"
disconnect(w, reconnect, error, f) ==
    IF w.sh.ws = "null"
    THEN w
    ELSE LET w1 == reset([w EXCEPT !.sh.heartbeatInterval = FALSE, !.sh.ws = "null"])
             w2 == IF error # NoError THEN emit(w1, "error", error) ELSE w1
             w3 == emit(w2, "disconnect", "")
         IN  scheduleReconnect(w3, reconnect, f)

\* Client.disconnect that leaves the connect queue as it is
clientDisconnect_keepQueue(w, reconnect, f) ==
    disconnect([w EXCEPT !.cl.ready = FALSE], reconnect, NoError, f)

\* Client.disconnect(options), for the one shard of the client
clientDisconnect(w, reconnect, f) ==
    [disconnect([w EXCEPT !.cl.ready = FALSE], reconnect, NoError, f)
        EXCEPT !.cq = FALSE]

\* Shard.connect with Shard.initializeWS; the shard's _token is client.token
\* as hardReset copied it, and client.token is not assigned after the
\* constructor.  Without a token initializeWS calls disconnect(null, error)
\* on a shard whose ws is null.
connect(w) ==
    IF w.sh.ws # "null"
    THEN emit(w, "error", "Existing connection detected")
    ELSE LET w1 == [w EXCEPT !.sh.connectAttempts = @ + 1, !.sh.connecting = TRUE]
         IN  IF w.cl.token = NULL
             THEN disconnect(w1, "null", "Token not specified", 1)
             ELSE [w1 EXCEPT !.sh.status = "connecting",
                             !.sh.ws = "CONNECTING",
                             !.sh.connectTimeout = TRUE]

\* heartbeat without the test of lastHeartbeatAck: the tick always sends
heartbeat_noAckCheck(w, normal, f) ==
    IF w.sh.status = "resuming"
    THEN w
    ELSE sendWS([w EXCEPT !.sh.lastHeartbeatAck = IF normal THEN FALSE ELSE @],
                [op |-> "HEARTBEAT", d |-> w.sh.seq])

\* heartbeat without the test of the status "resuming"
heartbeat_whileResuming(w, normal, f) ==
    IF normal /\ ~w.sh.lastHeartbeatAck
    THEN disconnect(w, "auto",
             "Server didn't acknowledge previous heartbeat, possible lost connection", f)
    ELSE sendWS([w EXCEPT !.sh.lastHeartbeatAck = IF normal THEN FALSE ELSE @],
                [op |-> "HEARTBEAT", d |-> w.sh.seq])

\* heartbeat that clears lastHeartbeatAck whenever it sends
heartbeat_clearAlways(w, normal, f) ==
    IF w.sh.status = "resuming"
    THEN w
    ELSE IF normal /\ ~w.sh.lastHeartbeatAck
         THEN disconnect(w, "auto",
                  "Server didn't acknowledge previous heartbeat, possible lost connection", f)
         ELSE sendWS([w EXCEPT !.sh.lastHeartbeatAck = FALSE,
                               !.st = @ \cup {"lastHeartbeatSent"}],
                     [op |-> "HEARTBEAT", d |-> w.sh.seq])

\* Shard.heartbeat(normal)
heartbeat(w, normal, f) ==
    IF w.sh.status = "resuming"
    THEN w
    ELSE IF normal /\ ~w.sh.lastHeartbeatAck
         THEN disconnect(w, "auto",
                  "Server didn't acknowledge previous heartbeat, possible lost connection", f)
         ELSE sendWS([w EXCEPT !.sh.lastHeartbeatAck = IF normal THEN FALSE ELSE @,
                               !.st = @ \cup {"lastHeartbeatSent"}],
                     [op |-> "HEARTBEAT", d |-> w.sh.seq])

\* Shard.identify (client.options.compress is off); presence.status is
\* never empty
identify(w) ==
    sendWS(w, [op |-> "IDENTIFY", token |-> Token, presence |-> w.sh.presence])

\* Shard.sendStatusUpdate
sendStatusUpdate(w) ==
    sendWS(w, [op |-> "STATUS_UPDATE", game |-> w.sh.presence.game,
               status |-> w.sh.presence.status])

\* Shard.editStatus(status, game), both given
editStatus(w, status, game) ==
    sendStatusUpdate([w EXCEPT !.sh.presence = [game |-> game, status |-> status]])

\* Client.editStatus(status, game), both given
clientEditStatus(w, status, game) ==
    editStatus([w EXCEPT !.cl.presence = [game |-> game, status |-> status]],
               status, game)

\* resume that leaves the status as it is
resume_keepStatus(w) ==
    sendWS(w, [op |-> "RESUME", token |-> Token, session_id |-> w.sh.sessionID,
               seq |-> w.sh.seq])

\* Shard.resume
resume(w) ==
    sendWS([w EXCEPT !.sh.status = "resuming"],
           [op |-> "RESUME", token |-> Token, session_id |-> w.sh.sessionID,
            seq |-> w.sh.seq])

\* Shard.checkReady
checkReady(w) ==
    IF w.sh.ready THEN w
    ELSE IF w.sh.clubSyncQueue # <<>>
    THEN [requestClubSync(w, w.sh.clubSyncQueue) EXCEPT !.sh.clubSyncQueue = <<>>]
    ELSE IF w.sh.unsyncedClubs > 0 THEN w
    ELSE IF w.sh.getAllUsersQueue # <<>>
    THEN [requestClubMembers(w, w.sh.getAllUsersQueue)
             EXCEPT !.sh.getAllUsersQueue = <<>>,
                    !.sh.getAllUsersLength = 1]
    ELSE IF w.sh.getAllUsersCount = {}
    THEN emit([w EXCEPT !.sh.ready = TRUE], "ready", "")
    ELSE w

\* Shard.restartClubCreateTimeout; the field clubCreateTimeout is TRUE while
\* the timer it refers to is running (clearTimeout of a timer that has fired
\* does nothing)
restartClubCreateTimeout(w) ==
    LET w1 == [w EXCEPT !.sh.clubCreateTimeout = FALSE]
    IN  IF w1.sh.ready THEN w1
        ELSE IF w1.cl.unavailableClubs = {} /\ w1.sh.unsyncedClubs = 0
        THEN checkReady(w1)
        ELSE [w1 EXCEPT !.sh.clubCreateTimeout = TRUE]

\* Shard.syncClub; the id list stays below the 4081 bytes of line 584
syncClub(w, clubID) ==
    IF w.sh.ready
    THEN requestClubSync(w, <<clubID>>)
    ELSE [w EXCEPT !.sh.clubSyncQueue = Append(@, clubID)]

\* Shard.getClubMembers; Len(clubID) is clubID.length
getClubMembers(w, clubID) ==
    IF clubID \in w.sh.getAllUsersCount
    THEN [w EXCEPT !.threw =
             "Cannot request all members while an existing request is processing"]
    ELSE LET w1 == [w EXCEPT !.sh.getAllUsersCount = @ \cup {clubID}]
         IN  IF options.intents # {}
             THEN IF "clubMembers" \notin options.intents
                  THEN [w1 EXCEPT !.threw =
                           "Cannot request all members without clubMembers intent"]
                  ELSE requestClubMembers(w1, <<clubID>>)
             ELSE IF w1.sh.getAllUsersLength + 3 + Len(clubID) > 4048
             THEN [requestClubMembers(w1, w1.sh.getAllUsersQueue)
                      EXCEPT !.sh.getAllUsersQueue = <<clubID>>,
                             !.sh.getAllUsersLength = 1 + Len(clubID) + 3]
             ELSE [w1 EXCEPT !.sh.getAllUsersQueue = Append(@, clubID),
                             !.sh.getAllUsersLength = @ + Len(clubID) + 3]

\* Shard.createClub; club.partial: the packet holds fewer members than
\* member_count
createClub(w, club) ==
    LET w1 == [w EXCEPT !.cl.clubs = @ \cup {club.id}]
        w2 == IF ~w1.cl.bot
              THEN syncClub([w1 EXCEPT !.sh.unsyncedClubs = @ + 1], club.id)
              ELSE w1
    IN  IF options.getAllUsers /\ club.partial
        THEN getClubMembers(w2, club.id)
        ELSE w2

\* the loop over packet.d.clubs of READY, lines 1749-1756, from clubs[i]
\* on; an exception ends it
readyClubs(w, clubs, i) ==
    LET body(v, club) ==
            IF v.threw # NoError THEN v
            ELSE IF club.unavailable
            THEN [v EXCEPT !.cl.clubs = @ \ {club.id},
                           !.cl.unavailableClubs = @ \cup {club.id}]
            ELSE LET c == createClub(v, club)
                 IN  IF c.threw # NoError THEN c
                     ELSE [c EXCEPT !.cl.unavailableClubs = @ \ {club.id}]
        RECURSIVE loop(_, _, _)
        loop(v, from, to) ==
            IF from > to \/ v.threw # NoError THEN v
            ELSE IF from = to THEN body(v, clubs[from])
            ELSE LET mid == (from + to) \div 2
                 IN  loop(loop(v, from, mid), mid + 1, to)
    IN  loop(w, i, Len(clubs))

\* the READY / RESUMED case that keeps the count of connection attempts
wsEventReady_keepAttempts(w, packet, f) ==
    LET w1 == [w EXCEPT !.sh.reconnectInterval = 1000,
                        !.sh.connecting = FALSE,
                        !.sh.connectTimeout = FALSE,
                        !.sh.status = "ready",
                        !.sh.presence.status = "online"]
    IN  IF packet.t = "RESUMED"
        THEN LET w2 == heartbeat(w1, FALSE, f)
             IN  emit([w2 EXCEPT !.sh.preReady = TRUE, !.sh.ready = TRUE], "resume", "")
        ELSE LET w2 == [w1 EXCEPT !.cl.bot = packet.bot, !.sh.sessionID = packet.sid]
                 w3 == readyClubs(w2, packet.clubs, 1)
                 w4 == emit([w3 EXCEPT !.sh.preReady = TRUE], "shardPreReady", "")
             IN  IF w3.threw # NoError THEN w3
                 ELSE IF w4.cl.unavailableClubs # {} /\ Len(packet.clubs) > 0
                 THEN restartClubCreateTimeout(w4)
                 ELSE checkReady(w4)

\* Shard.wsEvent, case "RESUMED" / "READY"
wsEventReady(w, packet, f) ==
    LET w1 == [w EXCEPT !.sh.connectAttempts = 0,
                        !.sh.reconnectInterval = 1000,
                        !.sh.connecting = FALSE,
                        !.sh.connectTimeout = FALSE,
                        !.sh.status = "ready",
                        !.sh.presence.status = "online"]
    IN  IF packet.t = "RESUMED"
        THEN LET w2 == heartbeat(w1, FALSE, f)
             IN  emit([w2 EXCEPT !.sh.preReady = TRUE, !.sh.ready = TRUE], "resume", "")
        ELSE LET w2 == [w1 EXCEPT !.cl.bot = packet.bot, !.sh.sessionID = packet.sid]
                 w3 == readyClubs(w2, packet.clubs, 1)
                 w4 == emit([w3 EXCEPT !.sh.preReady = TRUE], "shardPreReady", "")
             IN  IF w3.threw # NoError THEN w3
                 ELSE IF w4.cl.unavailableClubs # {} /\ Len(packet.clubs) > 0
                 THEN restartClubCreateTimeout(w4)
                 ELSE checkReady(w4)

\* Shard.wsEvent, case "CLUB_CREATE"
wsEventClubCreate(w, club) ==
    IF ~club.unavailable
    THEN LET w1 == createClub(w, club)
         IN  IF w1.threw # NoError THEN w1
             ELSE IF w1.sh.ready
             THEN emit([w1 EXCEPT !.cl.unavailableClubs = @ \ {club.id}],
                       IF club.id \in w1.cl.unavailableClubs
                       THEN "clubAvailable" ELSE "clubCreate", club.id)
             ELSE restartClubCreateTimeout(
                      [w1 EXCEPT !.cl.unavailableClubs = @ \ {club.id}])
    ELSE emit([w EXCEPT !.cl.clubs = @ \ {club.id},
                        !.cl.unavailableClubs = @ \cup {club.id}],
              "unavailableClubCreate", club.id)

\* Shard.wsEvent, case "CLUB_DELETE"
wsEventClubDelete(w, club) ==
    LET w1 == [w EXCEPT !.cl.clubs = @ \ {club.id}]
    IN  IF club.unavailable
        THEN emit([w1 EXCEPT !.cl.unavailableClubs = @ \cup {club.id}],
                  "clubUnavailable", club.id)
        ELSE emit(w1, "clubDelete", club.id)

\* Shard.wsEvent, case "CLUB_SYNC" (no members, presences or voice states
\* in the packet): club.pendingVoiceStates of a club that is not cached
\* throws
wsEventClubSync(w, d) ==
    IF d.id \notin w.cl.clubs
    THEN [w EXCEPT !.threw = "TypeError"]
    ELSE checkReady([w EXCEPT !.sh.unsyncedClubs = @ - 1])

\* Shard.wsEvent, case "CLUB_MEMBER_ADD"
wsEventClubMemberAdd(w, d) ==
    IF d.club_id \notin w.cl.clubs
    THEN emit(w, "debug", "Missing club in CLUB_MEMBER_ADD")
    ELSE emit(w, "clubMemberAdd", d.club_id)

\* Shard.wsEvent, case "CLUB_EMOJIS_UPDATE": club.emojis of a club that is
\* not cached throws
wsEventClubEmojisUpdate(w, d) ==
    IF d.club_id \notin w.cl.clubs
    THEN [w EXCEPT !.threw = "TypeError"]
    ELSE emit(w, "clubEmojisUpdate", d.club_id)

\* the chunk handler resolving on the first chunk it gets
wsEventMembersChunk_resolveFirst(w, d) ==
    IF d.club_id \notin w.cl.clubs
    THEN emit(w, "debug", "Received CLUB_MEMBERS_CHUNK, but club is missing")
    ELSE LET table == w.sh.requestMembersPromise
             w1 == IF d.nonce \in DOMAIN table
                   THEN [w EXCEPT !.sh.requestMembersPromise[d.nonce].members =
                                      @ \o d.members]
                   ELSE w
             w2 == IF d.nonce \in DOMAIN table
                   THEN [resolve(w1, d.nonce,
                             MemberList(w1.sh.requestMembersPromise[d.nonce].members))
                           EXCEPT !.rt = @ \ {d.nonce},
                                  !.sh.requestMembersPromise = Delete(@, d.nonce)]
                   ELSE w1
             w3 == IF d.chunk_index >= d.chunk_count - 1
                      /\ d.club_id \in w2.sh.getAllUsersCount
                   THEN checkReady([w2 EXCEPT !.sh.getAllUsersCount = @ \ {d.club_id}])
                   ELSE w2
         IN  [emit(w3, "clubMemberChunk", d.club_id) EXCEPT !.sh.lastHeartbeatAck = TRUE]

\* Shard.wsEvent, case "CLUB_MEMBERS_CHUNK" (no presences in the packet)
wsEventMembersChunk(w, d) ==
    IF d.club_id \notin w.cl.clubs
    THEN emit(w, "debug", "Received CLUB_MEMBERS_CHUNK, but club is missing")
    ELSE LET table == w.sh.requestMembersPromise
             w1 == IF d.nonce \in DOMAIN table
                   THEN [w EXCEPT !.sh.requestMembersPromise[d.nonce].members =
                                      @ \o d.members]
                   ELSE w
             w2 == IF d.chunk_index >= d.chunk_count - 1 /\ d.nonce \in DOMAIN table
                   THEN [resolve(w1, d.nonce,
                             MemberList(w1.sh.requestMembersPromise[d.nonce].members))
                           EXCEPT !.rt = @ \ {d.nonce},
                                  !.sh.requestMembersPromise = Delete(@, d.nonce)]
                   ELSE w1
             w3 == IF d.chunk_index >= d.chunk_count - 1
                      /\ d.club_id \in w2.sh.getAllUsersCount
                   THEN checkReady([w2 EXCEPT !.sh.getAllUsersCount = @ \ {d.club_id}])
                   ELSE w2
         IN  [emit(w3, "clubMemberChunk", d.club_id) EXCEPT !.sh.lastHeartbeatAck = TRUE]

(***************************************************************************)
(* VoiceConnectionManager (src/src/voice/VoiceConnectionManager.js).  The  *)
(* manager m is client.voiceConnections: its collection of sessions        *)
(* (m.connections), its table pendingClubs, the promises join returned     *)
(* (m.joins, by order of creation), the 10 s timers of line 46 that run    *)
(* (m.timers, by promise) and the calls made on sessions by the running    *)
(* callback (m.calls).  The session class, VoiceConnection, is an event    *)
(* emitter with the fields ws, ready and channelID.                        *)
(***************************************************************************)
NoSession == [exists |-> FALSE, ws |-> FALSE, ready |-> FALSE, channelID |-> NULL,
              listeners |-> <<>>, owed |-> FALSE]
\* a promise of join: its state and what it settled with, the club and the
\* branch of join it came from; and, kept until the step after it settles,
\* the channel of the call and whether a VOICE_SERVER_UPDATE for the club
\* arrived while it was pending
Promise(state, value, clubID, channelID, via) ==
    [state |-> state, value |-> value, club |-> clubID, channel |-> channelID,
     via |-> via, updated |-> FALSE]

\* res(value) or rej(value) of the promise p that join returned: the first
\* call settles the promise, a later call changes nothing
settle(m, p, state, value) ==
    [m EXCEPT !.joins[p] =
        IF @.state = "pending"
        THEN [@ EXCEPT !.state = state, !.value = value]
        ELSE @]

\* the listener of event ev that the handlers of promise p registered, of
\* kind "join" (lines 20-35) or "update" (lines 99-132)
Listener(ev, kind, p) == [ev |-> ev, kind |-> kind, p |-> p]

\* connection.once("ready", ..).once("disconnect", ..).once("error", ..)
once3(m, clubID, kind, p) ==
    [m EXCEPT !.connections[clubID].listeners =
        @ \o <<Listener("ready", kind, p), Listener("disconnect", kind, p),
               Listener("error", kind, p)>>]

\* connection.removeListener(ev, handler)
removeListener(m, clubID, ev, kind, p) ==
    [m EXCEPT !.connections[clubID].listeners =
        SelectSeq(@, LAMBDA l : l # Listener(ev, kind, p))]

\* a call on the session of clubID, as the running callback made it
called(m, clubID, method, arg) ==
    [m EXCEPT !.calls = Append(@, [club |-> clubID, method |-> method, arg |-> arg])]

\* VoiceConnection.switchChannel(channelID)
switchChannel(m, clubID, channelID) ==
    [called(m, clubID, "switchChannel", channelID)
        EXCEPT !.connections[clubID].channelID = channelID]

\* VoiceConnection.connect(data): the session is (re)connected to the
\* endpoint of the update and is not ready until it says so
sessionConnect(m, clubID, channelID) ==
    [called(m, clubID, "connect", channelID)
        EXCEPT !.connections[clubID].ws = TRUE,
               !.connections[clubID].ready = FALSE,
               !.connections[clubID].owed = FALSE,
               !.connections[clubID].channelID = channelID]

RECURSIVE runListeners(_, _, _, _, _, _)
RECURSIVE handler(_, _, _, _, _)
RECURSIVE sessionDisconnect(_, _, _)
RECURSIVE emitSession(_, _, _, _, _)

\* EventEmitter.emit(ev, err) on the session of clubID: the listeners of ev
\* registered when emit starts run in the order of their registration
emitSession(m, clubID, ev, err, sync) ==
    runListeners(m, clubID,
                 SelectSeq(m.connections[clubID].listeners, LAMBDA l : l.ev = ev),
                 1, err, sync)

\* a once() listener removes itself, then runs its handler
runListeners(m, clubID, list, i, err, sync) ==
    IF i > Len(list) THEN m
    ELSE LET l == list[i]
             m1 == removeListener(m, clubID, l.ev, l.kind, l.p)
         IN  runListeners(handler(m1, clubID, l, err, sync), clubID, list, i + 1,
                          err, sync)

\* VoiceConnection.disconnect(): the session closes its socket and emits
\* "disconnect", during the call (sync) or once the socket has closed
sessionDisconnect(m, clubID, sync) ==
    LET m1 == [called(m, clubID, "disconnect", "")
                  EXCEPT !.connections[clubID].ws = FALSE,
                         !.connections[clubID].ready = FALSE,
                         !.connections[clubID].owed =
                             IF sync THEN FALSE ELSE @ \/ m.connections[clubID].ws]
    IN  IF sync /\ (m.connections[clubID].ws \/ m.connections[clubID].owed)
        THEN emitSession(m1, clubID, "disconnect", NoError, sync)
        ELSE m1

\* readyHandler of join with its listeners left in place
joinReadyHandler_keepListeners(m, clubID, p) ==
    settle(m, p, "resolved", clubID)

\* join, lines 25-29: readyHandler
joinReadyHandler(m, clubID, p) ==
    LET m1 == removeListener(m, clubID, "disconnect", "join", p)
        m2 == removeListener(m1, clubID, "error", "join", p)
    IN  settle(m2, p, "resolved", clubID)

\* the handlers of join (lines 20-35) and of voiceServerUpdate (lines
\* 99-132), as the listener l stands for them
handler(m, clubID, l, err, sync) ==
    IF l.kind = "join"
    THEN CASE l.ev = "disconnect" ->
                LET m1 == removeListener(m, clubID, "ready", "join", l.p)
                    m2 == removeListener(m1, clubID, "error", "join", l.p)
                IN  settle(m2, l.p, "rejected", "Disconnected")
           [] l.ev = "ready" -> joinReadyHandler(m, clubID, l.p)
           [] OTHER ->
                LET m1 == removeListener(m, clubID, "disconnect", "join", l.p)
                    m2 == removeListener(m1, clubID, "ready", "join", l.p)
                    m3 == sessionDisconnect(m2, clubID, sync)
                IN  settle(m3, l.p, "rejected", err)
    ELSE LET others == {"ready", "disconnect", "error"} \ {l.ev}
             a == CHOOSE x \in others : TRUE
             b == CHOOSE x \in others : x # a
             m1 == IF m.connections[clubID].exists
                   THEN removeListener(removeListener(m, clubID, a, "update", l.p),
                                       clubID, b, "update", l.p)
                   ELSE m
             m2 == IF l.ev = "error" /\ m1.connections[clubID].exists
                   THEN sessionDisconnect(m1, clubID, sync)
                   ELSE m1
         IN  IF clubID \in DOMAIN m2.pendingClubs
             THEN LET entry == m2.pendingClubs[clubID]
                      m3 == CASE l.ev = "disconnect" ->
                                    settle(m2, entry.p, "rejected", "Disconnected")
                              [] l.ev = "ready" ->
                                    settle(m2, entry.p, "resolved", clubID)
                              [] OTHER -> settle(m2, entry.p, "rejected", err)
                  IN  [m3 EXCEPT !.pendingClubs = Delete(@, clubID)]
             ELSE m2

\* join with no switchChannel on the live session
join_noSwitch(m, clubID, channelID) ==
    LET p == Len(m.joins) + 1
    IN  IF m.connections[clubID].exists /\ m.connections[clubID].ws
        THEN IF m.connections[clubID].ready
             THEN [m EXCEPT !.joins = Append(@, Promise("resolved", clubID, clubID,
                                                        channelID, "ready"))]
             ELSE once3([m EXCEPT !.joins = Append(@, Promise("pending", "", clubID,
                                                               channelID, "live"))],
                        clubID, "join", p)
        ELSE [m EXCEPT !.joins = Append(@, Promise("pending", "", clubID,
                                                     channelID, "new")),
                       !.pendingClubs = Put(@, clubID,
                            [channelID |-> channelID, p |-> p, timeout |-> TRUE,
                             waiting |-> FALSE]),
                       !.timers = @ \cup {[p |-> p, club |-> clubID]}]

\* VoiceConnectionManager.join(clubID, channelID, options); p is the promise
\* it returns
join(m, clubID, channelID) ==
    LET p == Len(m.joins) + 1
    IN  IF m.connections[clubID].exists /\ m.connections[clubID].ws
        THEN LET m1 == switchChannel(m, clubID, channelID)
             IN  IF m1.connections[clubID].ready
                 THEN [m1 EXCEPT !.joins = Append(@, Promise("resolved", clubID,
                                                             clubID, channelID, "ready"))]
                 ELSE once3([m1 EXCEPT !.joins = Append(@, Promise("pending", "", clubID,
                                                                   channelID, "live"))],
                            clubID, "join", p)
        ELSE [m EXCEPT !.joins = Append(@, Promise("pending", "", clubID,
                                                     channelID, "new")),
                       !.pendingClubs = Put(@, clubID,
                            [channelID |-> channelID, p |-> p, timeout |-> TRUE,
                             waiting |-> FALSE]),
                       !.timers = @ \cup {[p |-> p, club |-> clubID]}]

\* the timer of join that only rejects
joinTimeout_keepEntry(m, clubID, p) ==
    settle([m EXCEPT !.timers = @ \ {[p |-> p, club |-> clubID]}], p, "rejected", "Voice connection timeout")

\* join, lines 46-49: the callback of the 10 s timer of promise p
joinTimeout(m, clubID, p) ==
    settle([m EXCEPT !.timers = @ \ {[p |-> p, club |-> clubID]}, !.pendingClubs = Delete(@, clubID)],
           p, "rejected", "Voice connection timeout")

\* voiceServerUpdate that clears the timer and attaches no listeners
voiceServerUpdate_noListeners(m, data) ==
    LET clubID == data.club_id
        m1 == IF clubID \in DOMAIN m.pendingClubs /\ m.pendingClubs[clubID].timeout
              THEN [m EXCEPT !.timers = @ \ {[p |-> m.pendingClubs[clubID].p, club |-> clubID]},
                             !.pendingClubs[clubID].timeout = FALSE]
              ELSE m
    IN  IF ~m1.connections[clubID].exists /\ clubID \notin DOMAIN m1.pendingClubs
        THEN m1
        ELSE LET m2 == IF ~m1.connections[clubID].exists
                       THEN [m1 EXCEPT !.connections[clubID] =
                                           [NoSession EXCEPT !.exists = TRUE]]
                       ELSE m1
                 channel_id == IF clubID \in DOMAIN m2.pendingClubs
                               THEN m2.pendingClubs[clubID].channelID
                               ELSE m2.connections[clubID].channelID
                 m3 == sessionConnect(m2, clubID, channel_id)
             IN  IF clubID \notin DOMAIN m3.pendingClubs
                    \/ m3.pendingClubs[clubID].waiting
                 THEN m3
                 ELSE [m3 EXCEPT !.pendingClubs[clubID].waiting = TRUE]

\* VoiceConnectionManager.voiceServerUpdate(data)
voiceServerUpdate(m, data) ==
    LET clubID == data.club_id
        m1 == IF clubID \in DOMAIN m.pendingClubs /\ m.pendingClubs[clubID].timeout
              THEN [m EXCEPT !.timers = @ \ {[p |-> m.pendingClubs[clubID].p, club |-> clubID]},
                             !.pendingClubs[clubID].timeout = FALSE]
              ELSE m
    IN  IF ~m1.connections[clubID].exists /\ clubID \notin DOMAIN m1.pendingClubs
        THEN m1
        ELSE LET m2 == IF ~m1.connections[clubID].exists
                       THEN [m1 EXCEPT !.connections[clubID] =
                                           [NoSession EXCEPT !.exists = TRUE]]
                       ELSE m1
                 channel_id == IF clubID \in DOMAIN m2.pendingClubs
                               THEN m2.pendingClubs[clubID].channelID
                               ELSE m2.connections[clubID].channelID
                 m3 == sessionConnect(m2, clubID, channel_id)
             IN  IF clubID \notin DOMAIN m3.pendingClubs
                    \/ m3.pendingClubs[clubID].waiting
                 THEN m3
                 ELSE once3([m3 EXCEPT !.pendingClubs[clubID].waiting = TRUE],
                            clubID, "update", m3.pendingClubs[clubID].p)

\* Client.joinVoiceChannel(channelID) for a channel of clubID the account
\* may connect to
joinVoiceChannel(w, clubID, channelID) ==
    [sendWS(w, [op |-> "VOICE_STATE_UPDATE", club_id |-> clubID,
                channel_id |-> channelID])
        EXCEPT !.vc = join(@, clubID, channelID)]

\* Shard.wsEvent, case VOICE_SERVER_UPDATE
wsEventVoiceServerUpdate(w, d) ==
    [w EXCEPT !.vc = voiceServerUpdate(@, d)]

\* Shard.wsEvent: the cases that touch the state kept here
wsEvent(w, packet, f) ==
    CASE packet.t \in {"READY", "RESUMED"} -> wsEventReady(w, packet, f)
      [] packet.t = "CLUB_CREATE" -> wsEventClubCreate(w, packet.d)
      [] packet.t = "CLUB_DELETE" -> wsEventClubDelete(w, packet.d)
      [] packet.t = "CLUB_SYNC" -> wsEventClubSync(w, packet.d)
      [] packet.t = "CLUB_MEMBER_ADD" -> wsEventClubMemberAdd(w, packet.d)
      [] packet.t = "CLUB_EMOJIS_UPDATE" -> wsEventClubEmojisUpdate(w, packet.d)
      [] packet.t = "CLUB_MEMBERS_CHUNK" -> wsEventMembersChunk(w, packet.d)
      [] packet.t = "VOICE_SERVER_UPDATE" -> wsEventVoiceServerUpdate(w, packet.d)
      [] OTHER -> w

\* onPacketSeq counting the packets instead of taking packet.s
onPacketSeq_increment(w, packet) ==
    IF packet.s # 0 THEN [w EXCEPT !.sh.seq = Min(@ + 1, MaxSeq)] ELSE w

\* Shard.onPacket, lines 382-393: the sequence number of the packet
onPacketSeq(w, packet) ==
    IF packet.s # 0
    THEN LET w1 == IF packet.s > w.sh.seq + 1 /\ w.sh.ws # "null"
                      /\ w.sh.status # "resuming"
                   THEN emit(w, "warn", "Non-consecutive sequence")
                   ELSE w
         IN  [w1 EXCEPT !.sh.seq = packet.s]
    ELSE w

\* onHello with the heartbeat sent before the IDENTIFY
onHello_heartbeatFirst(w, packet, f) ==
    LET w1 == [w EXCEPT !.sh.heartbeatInterval = (packet.hb > 0) \/ @,
                        !.sh.connecting = FALSE,
                        !.sh.connectTimeout = FALSE]
        w2 == IF w1.sh.sessionID # NULL
              THEN resume(w1)
              ELSE identify(heartbeat(w1, FALSE, f))
    IN  emit(w2, "hello", "")

\* onHello that never resumes
onHello_alwaysIdentify(w, packet, f) ==
    LET w1 == [w EXCEPT !.sh.heartbeatInterval = (packet.hb > 0) \/ @,
                        !.sh.connecting = FALSE,
                        !.sh.connectTimeout = FALSE]
    IN  emit(heartbeat(identify(w1), FALSE, f), "hello", "")

\* Shard.onPacket, case HELLO
onHello(w, packet, f) ==
    LET w1 == [w EXCEPT !.sh.heartbeatInterval = (packet.hb > 0) \/ @,
                        !.sh.connecting = FALSE,
                        !.sh.connectTimeout = FALSE]
        w2 == IF w1.sh.sessionID # NULL
              THEN resume(w1)
              ELSE heartbeat(identify(w1), FALSE, f)
    IN  emit(w2, "hello", "")

\* onInvalidSession that keeps the sequence
onInvalidSession_keepSeq(w) ==
    identify(emit([w EXCEPT !.sh.sessionID = NULL],
                  "warn", "Invalid session, reidentifying!"))

\* Shard.onPacket, case INVALID_SESSION
onInvalidSession(w) ==
    identify(emit([w EXCEPT !.sh.seq = 0, !.sh.sessionID = NULL],
                  "warn", "Invalid session, reidentifying!"))

\* onReconnect that passes an error to disconnect
onReconnect_withError(w, f) == disconnect(w, "auto", "Reconnect requested", f)

\* Shard.onPacket, case RECONNECT
onReconnect(w, f) == disconnect(w, "auto", NoError, f)

\* Shard.onPacket
onPacket(w, packet, f) ==
    LET w1 == onPacketSeq(w, packet)
    IN  CASE packet.op = "EVENT" -> wsEvent(w1, packet, f)
          [] packet.op = "HEARTBEAT" -> heartbeat(w1, FALSE, f)
          [] packet.op = "INVALID_SESSION" -> onInvalidSession(w1)
          [] packet.op = "RECONNECT" -> onReconnect(w1, f)
          [] packet.op = "HELLO" -> onHello(w1, packet, f)
          [] packet.op = "HEARTBEAT_ACK" ->
                 [w1 EXCEPT !.sh.lastHeartbeatAck = TRUE,
                            !.st = @ \cup {"lastHeartbeatReceived"}]
          [] OTHER -> emit(w1, "unknown", "")

\* closeError with an error for every close that has a code, 1000 included
closeError_cleanIsError(w, code) ==
    CASE code = 0 -> NoError
      [] code = 1006 -> "Connection reset by peer"
      [] OTHER -> "code: reason"

\* the error _onWSClose builds for a close code (lines 1958-2007); the close
\* carries a reason
closeError(w, code) ==
    CASE code \in {0, 1000} -> NoError
      [] code = 4001 -> "Gateway received invalid OP code"
      [] code = 4002 -> "Gateway received invalid message"
      [] code = 4003 -> "Not authenticated"
      [] code = 4004 -> "Authentication failed"
      [] code = 4005 -> "Already authenticated"
      [] code \in {4006, 4009} -> "Invalid session"
      [] code = 4007 -> "Invalid sequence number"
      [] code = 4008 -> "Gateway connection was ratelimited"
      [] code = 4010 -> "Invalid shard key"
      [] code = 4011 -> "Shard has too many clubs (>2500)"
      [] code = 4013 -> "Invalid intents specified"
      [] code = 4014 -> "Disallowed intents specified"
      [] code = 1006 -> "Connection reset by peer"
      [] OTHER -> "code: reason"

\* closeReconnect with 4004 left on "auto"
closeReconnect_authAuto(code) ==
    IF code \in {4010, 4011, 4013, 4014} THEN "false" ELSE "auto"

\* closeReconnect with the intent codes 4013 and 4014 left on "auto"
closeReconnect_intentsAuto(code) ==
    IF code \in {4004, 4010, 4011} THEN "false" ELSE "auto"

\* the reconnect option _onWSClose passes to disconnect
closeReconnect(code) ==
    IF code \in {4004, 4010, 4011, 4013, 4014} THEN "false" ELSE "auto"

\* _onWSClose that keeps the session on 4006 and 4009
onWSClose_keepSession(w, code, f) ==
    LET w1 == IF code \in {4003, 4004, 4010, 4011, 4013, 4014}
              THEN [w EXCEPT !.sh.sessionID = NULL]
              ELSE IF code = 4007 THEN [w EXCEPT !.sh.seq = 0] ELSE w
        w2 == IF code = 4004 THEN emit(w1, "error", "Invalid token") ELSE w1
    IN  disconnect(w2, closeReconnect(code), closeError(w2, code), f)

\* _onWSClose that leaves the sequence alone on 4007
onWSClose_keepSeq(w, code, f) ==
    LET w1 == IF code \in {4003, 4004, 4006, 4009, 4010, 4011, 4013, 4014}
              THEN [w EXCEPT !.sh.sessionID = NULL]
              ELSE w
        w2 == IF code = 4004 THEN emit(w1, "error", "Invalid token") ELSE w1
    IN  disconnect(w2, closeReconnect(code), closeError(w2, code), f)

\* Shard._onWSClose
onWSClose(w, code, f) ==
    LET w1 == IF code \in {4003, 4004, 4006, 4009, 4010, 4011, 4013, 4014}
              THEN [w EXCEPT !.sh.sessionID = NULL]
              ELSE IF code = 4007 THEN [w EXCEPT !.sh.seq = 0] ELSE w
        w2 == IF code = 4004 THEN emit(w1, "error", "Invalid token") ELSE w1
    IN  disconnect(w2, closeReconnect(code), closeError(w2, code), f)

\* Shard._onWSMessage: an exception thrown while the packet is handled is
\* caught and emitted as an error
onWSMessage(w, packet, f) ==
    LET w1 == onPacket(w, packet, f)
    IN  IF w1.threw # NoError
        THEN emit([w1 EXCEPT !.threw = NoError], "error", w1.threw)
        ELSE w1

\* Shard._onWSOpen
onWSOpen(w) ==
    emit([w EXCEPT !.sh.status = "handshaking", !.sh.ws = "OPEN",
                   !.sh.lastHeartbeatAck = TRUE],
         "connect", "")

\* the state after new Client(token, options) and the spawn of the shard
\* (the Shard constructor ends with hardReset), whatever the options are
BootAs(token) ==
    /\ shard = [status |-> "disconnected", ws |-> "null", sessionID |-> NULL,
                seq |-> 0, connecting |-> FALSE, ready |-> FALSE,
                preReady |-> FALSE, lastHeartbeatAck |-> TRUE,
                heartbeatInterval |-> FALSE, connectTimeout |-> FALSE,
                connectAttempts |-> 0, reconnectInterval |-> 1000,
                requestMembersPromise |-> <<>>, getAllUsersCount |-> {},
                getAllUsersQueue |-> <<>>, getAllUsersLength |-> 1,
                clubSyncQueue |-> <<>>,
                unsyncedClubs |-> 0, clubCreateTimeout |-> FALSE,
                presence |-> [game |-> NULL, status |-> "offline"]]
    /\ client = [clubs |-> {}, unavailableClubs |-> {}, bot |-> TRUE, ready |-> FALSE,
                 presence |-> [game |-> NULL, status |-> "offline"],
                 token |-> token]
    /\ promises = <<>>
    /\ reqTimers = {}
    /\ orphans = 0
    /\ readyCount = 0
    /\ gate = [awaited |-> {}, fired |-> FALSE]
    /\ chunkLog = <<>>
    /\ voice = [connections |-> [g \in Clubs |-> NoSession], pendingClubs |-> <<>>,
                joins |-> <<>>, timers |-> {}, calls |-> <<>>]
    /\ connectQueue = FALSE
    /\ timers = 0
    /\ armed = 0
    /\ sent = <<>>
    /\ traces = <<>>
    /\ stamped = {}
    /\ buckets = [funcs |-> <<>>, global |-> <<>>, presence |-> <<>>]
    /\ events = <<>>
    /\ step = [op |-> "init", arg |-> 0]
    /\ pendingAuth = "none"
    /\ sinceResume = "none"
    /\ lastDisc = "none"
    /\ explicitOff = FALSE
    /\ maxS = 0

\* new Client(Token, options)
Boot == BootAs(Token)

\* a bot account without getAllUsers and without intents
Init ==
    /\ Boot
    /\ options \in [autoreconnect : BOOLEAN, getAllUsers : {FALSE}, intents : {{}}]
    /\ gateway = [bot |-> TRUE, streams |-> <<>>, syncs |-> {}]

(***************************************************************************)
(* The callbacks as actions.  The factor f is read only on a path that     *)
(* disconnects; a callback that cannot disconnect is given 1.              *)
(***************************************************************************)
hasFrame(w, op) == \E i \in 1..Len(w.sent) : w.sent[i].op = op

\* a packet as onPacket reads it: hb is d.heartbeat_interval, sid d.session_id
Packet(op, t, s, hb, sid) == [op |-> op, t |-> t, s |-> s, hb |-> hb, sid |-> sid]

\* READY: bot is d.user.bot, clubs is d.clubs
ReadyPacket(s, sid, bot, clubs) ==
    [op |-> "EVENT", t |-> "READY", s |-> s, hb |-> 0, sid |-> sid,
     bot |-> bot, clubs |-> clubs]

\* a dispatch with its d
Dispatch(t, s, d) == [op |-> "EVENT", t |-> t, s |-> s, hb |-> 0, sid |-> NULL, d |-> d]

\* a club as READY, CLUB_CREATE and CLUB_DELETE carry it
Club(id, unavailable, partial) ==
    [id |-> id, unavailable |-> unavailable, partial |-> partial]

\* the club lists of READY: every club of the account is listed as
\* available, listed as unavailable, or not listed
ReadyClubLists(partial) ==
    {[i \in 1..Len(ids) |-> Club(ids[i], how[ids[i]] = "unavailable", partial)] :
        <<ids, how>> \in
            {<<SelectSeq(ClubOrder, LAMBDA id : h[id] # "absent"), h>> :
                h \in [Clubs -> {"absent", "available", "unavailable"}]}}

\* gateway side: the requests the frames of a callback added; the gateway
\* takes requests once it has answered the IDENTIFY or RESUME
Requested(gw, frames) ==
    LET gets == {i \in 1..Len(frames) : frames[i].op = "GET_CLUB_MEMBERS"}
        syncs == {i \in 1..Len(frames) : frames[i].op = "SYNC_CLUB"}
    IN  [gw EXCEPT
            !.streams =
                [n \in DOMAIN @ \cup {frames[i].nonce : i \in gets} |->
                    IF \E i \in gets : frames[i].nonce = n
                    THEN [clubs |-> frames[CHOOSE i \in gets : frames[i].nonce = n].club_id,
                          next |-> 0, count |-> 0]
                    ELSE @[n]],
            !.syncs = @ \cup UNION {Elems(frames[i].d) : i \in syncs}]

\* why the callback that ran disconnected the shard
discClass(w, stp) ==
    IF stp.op = "close" /\ stp.arg = 1000 /\ w.sh.sessionID # NULL THEN "clean"
    ELSE IF stp.op = "close" /\ stp.arg \in {4003, 4006, 4009} THEN "sessionInvalid"
    ELSE "other"

\* the state after a callback: the shard and its surroundings as the
\* callback left them, and the records kept about the run
Record(w, stp) ==
    /\ shard' = w.sh
    /\ connectQueue' = w.cq
    /\ timers' = w.tm
    /\ armed' = w.armed
    /\ sent' = w.sent
    /\ traces' = w.dbg
    /\ stamped' = w.st
    /\ buckets' = w.bk
    /\ events' = w.ev
    /\ step' = stp
    /\ options' = options
    /\ pendingAuth' =
          IF w.sh.ws # "OPEN" THEN "none"
          ELSE IF hasFrame(w, "IDENTIFY") THEN "identify"
          ELSE IF hasFrame(w, "RESUME") THEN "resume"
          ELSE IF stp.op \in {"READY", "RESUMED"} THEN "none"
          ELSE pendingAuth
    /\ sinceResume' =
          IF w.sh.ws # "OPEN" THEN "none"
          ELSE IF hasFrame(w, "RESUME") THEN "pending"
          ELSE IF stp.op = "RESUMED" /\ sinceResume = "pending" THEN "resumed"
          ELSE IF stp.op = "READY" /\ sinceResume = "pending" THEN "ready"
          ELSE sinceResume
    /\ lastDisc' =
          IF shard.ws # "null" /\ w.sh.ws = "null" THEN discClass(w, stp) ELSE lastDisc
    /\ explicitOff' =
          IF stp.op = "disconnect" THEN stp.reconnect = "false"
          ELSE IF stp.op = "connect" THEN FALSE
          ELSE explicitOff
    /\ maxS' =
          IF stp.op = "READY" THEN w.sh.seq
          ELSE IF stp.op \in {"EVENT", "RESUMED"} THEN Max(maxS, stp.arg)
          ELSE IF w.sh.seq = 0 THEN 0
          ELSE maxS
    /\ client' = w.cl
    /\ voice' =
          [w.vc EXCEPT !.joins =
              [p \in DOMAIN @ |->
                  IF p \in DOMAIN voice.joins /\ voice.joins[p].state # "pending"
                  THEN [@[p] EXCEPT !.channel = NULL, !.updated = FALSE]
                  ELSE IF stp.op = "VOICE_SERVER_UPDATE" /\ @[p].club = stp.d.club_id
                  THEN [@[p] EXCEPT !.updated = TRUE]
                  ELSE @[p]]]
    /\ promises' = w.pr
    /\ reqTimers' = w.rt
    /\ orphans' = w.orph
    /\ gateway' =
          IF w.sh.ws # "OPEN"
          THEN [w.gw EXCEPT !.streams = <<>>, !.syncs = {}]
          ELSE IF pendingAuth # "none" /\ stp.op \notin {"READY", "RESUMED"}
          THEN w.gw
          ELSE Requested(w.gw, w.sent)
    /\ readyCount' =
          IF w.sh.sessionID = NULL THEN 0
          ELSE Min(2, (IF stp.op = "READY" THEN 0 ELSE readyCount)
                      + Len(SelectSeq(w.ev, LAMBDA e : e.type = "ready")))
    /\ gate' =
          IF stp.op = "READY"
          THEN [awaited |-> {stp.clubs[i].id : i \in
                                {j \in 1..Len(stp.clubs) : stp.clubs[j].unavailable}},
                fired |-> FALSE]
          ELSE IF stp.op = "CLUB_CREATE" /\ ~stp.d.unavailable
          THEN [gate EXCEPT !.awaited = @ \ {stp.d.id}]
          ELSE IF stp.op = "clubCreateTimeout"
          THEN [gate EXCEPT !.fired = TRUE]
          ELSE gate
    /\ chunkLog' =
          [n \in DOMAIN w.sh.requestMembersPromise |->
              LET log == IF n \in DOMAIN chunkLog THEN chunkLog[n] ELSE <<>>
              IN  IF stp.op = "CLUB_MEMBERS_CHUNK" /\ stp.d.nonce = n
                  THEN Append(log, [members |-> stp.d.members,
                                    cached |-> stp.d.club_id \in client.clubs])
                  ELSE log]

\* a callback whose outcome stays within the bounds of the run
Commit(w, stp) ==
    /\ w.tm <= MaxTimers
    /\ w.sh.connectAttempts <= MaxAttempts
    /\ Len(w.pr) <= MaxRequests
    /\ w.orph <= MaxOrphans
    /\ w.sh.unsyncedClubs <= MaxQueued
    /\ Len(w.sh.clubSyncQueue) <= MaxQueued
    /\ Len(w.sh.getAllUsersQueue) <= MaxQueued
    /\ Len(w.vc.joins) <= MaxJoins
    /\ Record(w, stp)

\* the user calls shard.connect()
CallerConnect ==
    /\ Commit(connect(World), [op |-> "connect", arg |-> 0])

\* the connect queue's worker takes the shard and calls shard.connect()
ManagerConnect ==
    /\ connectQueue
    /\ Commit(connect([World EXCEPT !.cq = FALSE]), [op |-> "queue", arg |-> 0])

\* a reconnect timer fires (line 187)
ReconnectTimer ==
    /\ timers > 0
    /\ Commit(shardsConnect([World EXCEPT !.tm = @ - 1]), [op |-> "timer", arg |-> 0])

\* the connection timeout fires (lines 362-368)
ConnectTimeout ==
    /\ shard.connectTimeout
    /\ \E f \in Factors :
          Commit(IF shard.connecting
                 THEN disconnect(World, "auto", "Connection timeout", f)
                 ELSE [World EXCEPT !.sh.connectTimeout = FALSE],
                 [op |-> "connectTimeout", arg |-> 0])

\* the heartbeat interval fires (line 424)
HeartbeatTimer ==
    /\ shard.heartbeatInterval
    /\ \E f \in Factors :
          Commit(heartbeat(World, TRUE, f), [op |-> "heartbeatTimer", arg |-> 0])

\* the user calls client.disconnect(options)
CallerDisconnect ==
    /\ \E reconnect \in {"false", "true", "auto"}, f \in Factors :
        Commit(clientDisconnect(World, reconnect, f),
               [op |-> "disconnect", arg |-> 0, reconnect |-> reconnect])

SocketOpen ==
    /\ shard.ws = "CONNECTING"
    /\ Commit(onWSOpen(World), [op |-> "open", arg |-> 0])

\* the socket closes: a connection attempt that fails closes with 1006, an
\* open socket with any code
SocketClose ==
    /\ shard.ws # "null"
    /\ \E code \in (IF shard.ws = "OPEN" THEN CloseCodes ELSE {1006}), f \in Factors :
          Commit(onWSClose(World, code, f), [op |-> "close", arg |-> code])

\* Shard._onWSError
SocketError ==
    /\ shard.ws # "null"
    /\ Commit(emit(World, "error", "socket error"), [op |-> "error", arg |-> 0])

\* the gateway greets a new connection with HELLO
RecvHello ==
    /\ shard.ws = "OPEN" /\ shard.connecting
    /\ \E hb \in {41250} :
          Commit(onPacket(World, Packet("HELLO", "", 0, hb, NULL), 1),
                 [op |-> "HELLO", arg |-> hb])

\* after HELLO the gateway may send any of these at any time
RecvOp ==
    /\ shard.ws = "OPEN" /\ ~shard.connecting
    /\ \E op \in {"HEARTBEAT", "HEARTBEAT_ACK", "INVALID_SESSION", "RECONNECT"},
          f \in Factors :
          Commit(onPacket(World, Packet(op, "", 0, 0, NULL), f), [op |-> op, arg |-> 0])

\* the gateway answers an IDENTIFY with READY
RecvReady ==
    /\ shard.ws = "OPEN" /\ ~shard.connecting /\ pendingAuth = "identify"
    /\ \E s \in 0..MaxSeq, sid \in SessionIds :
          Commit(onPacket(World, ReadyPacket(s, sid, gateway.bot, <<>>), 1),
                 [op |-> "READY", arg |-> s, clubs |-> <<>>,
                  backoff |-> shard.reconnectInterval])

\* the gateway answers a RESUME with RESUMED
RecvResumed ==
    /\ shard.ws = "OPEN" /\ ~shard.connecting /\ pendingAuth = "resume"
    /\ \E s \in 0..MaxSeq :
          Commit(onPacket(World, Packet("EVENT", "RESUMED", s, 0, NULL), 1),
                 [op |-> "RESUMED", arg |-> s])

\* any other dispatch; its s is whatever the gateway puts on it
RecvEvent ==
    /\ shard.ws = "OPEN" /\ ~shard.connecting
    /\ \E s \in 0..MaxSeq :
          Commit(onPacket(World, Packet("EVENT", "MESSAGE_ACK", s, 0, NULL), 1),
                 [op |-> "EVENT", arg |-> s])

Next ==
    \/ CallerConnect
    \/ ManagerConnect
    \/ ReconnectTimer
    \/ ConnectTimeout
    \/ HeartbeatTimer
    \/ CallerDisconnect
    \/ SocketOpen
    \/ SocketClose
    \/ SocketError
    \/ RecvHello
    \/ RecvOp
    \/ RecvReady
    \/ RecvResumed
    \/ RecvEvent

Spec == Init /\ [][Next]_vars

(***************************************************************************)
(* The clubs of the shard and the way to "ready".  SpecClubs follows them  *)
(* for a bot or a user account, with and without getAllUsers and intents,  *)
(* with autoreconnect off: the caller reconnects.  The gateway numbers no  *)
(* dispatch and does not ask for heartbeats here; sequence numbers,        *)
(* heartbeats, close codes and the reconnect timers are followed by Spec.  *)
(***************************************************************************)
InitClubs ==
    /\ Boot
    /\ options \in {[autoreconnect |-> FALSE, getAllUsers |-> FALSE, intents |-> {}],
                    [autoreconnect |-> FALSE, getAllUsers |-> TRUE, intents |-> {}],
                    [autoreconnect |-> FALSE, getAllUsers |-> TRUE, intents |-> MembersIntents]}
    /\ gateway \in [bot : BOOLEAN, streams : {<<>>}, syncs : {{}}]
    /\ gateway.bot \/ ~options.getAllUsers

\* the gateway answers an IDENTIFY with READY, listing the clubs
RecvReadyClubs ==
    /\ shard.ws = "OPEN" /\ ~shard.connecting /\ pendingAuth = "identify"
    /\ \E partial \in BOOLEAN, sid \in SessionIds :
        \E clubs \in ReadyClubLists(partial) :
          Commit(onWSMessage(World, ReadyPacket(0, sid, gateway.bot, clubs), 1),
                 [op |-> "READY", arg |-> 0, clubs |-> clubs])

\* the gateway answers a RESUME with RESUMED
RecvResumedClubs ==
    /\ shard.ws = "OPEN" /\ ~shard.connecting /\ pendingAuth = "resume"
    /\ Commit(onWSMessage(World, Packet("EVENT", "RESUMED", 0, 0, NULL), 1),
              [op |-> "RESUMED", arg |-> 0])

\* a club becomes available or is joined: after READY, or among the events
\* replayed before RESUMED
RecvClubCreate ==
    /\ shard.ws = "OPEN" /\ ~shard.connecting /\ pendingAuth # "identify"
    /\ \E id \in Clubs \ client.clubs, partial \in BOOLEAN :
        LET d == Club(id, FALSE, partial)
        IN  Commit(onWSMessage(World, Dispatch("CLUB_CREATE", 0, d), 1),
                   [op |-> "CLUB_CREATE", arg |-> 0, d |-> d])

\* a club becomes unavailable or is left
RecvClubDelete ==
    /\ shard.ws = "OPEN" /\ ~shard.connecting /\ pendingAuth # "identify"
    /\ \E id \in client.clubs, unavailable \in BOOLEAN :
        LET d == Club(id, unavailable, FALSE)
        IN  Commit(onWSMessage(World, Dispatch("CLUB_DELETE", 0, d), 1),
                   [op |-> "CLUB_DELETE", arg |-> 0, d |-> d])

\* the gateway answers a SYNC_CLUB, one club at a time
RecvClubSync ==
    /\ shard.ws = "OPEN" /\ ~shard.connecting /\ pendingAuth = "none"
    /\ \E id \in gateway.syncs :
        LET d == [id |-> id]
        IN  Commit(onWSMessage([World EXCEPT !.gw.syncs = @ \ {id}],
                               Dispatch("CLUB_SYNC", 0, d), 1),
                   [op |-> "CLUB_SYNC", arg |-> 0, d |-> d])

\* the gateway answers a GET_CLUB_MEMBERS: for each club of the request, in
\* turn, chunks 0 .. chunk_count - 1 in order, all with the nonce of the
\* request
RecvMembersChunk ==
    /\ shard.ws = "OPEN" /\ ~shard.connecting /\ pendingAuth = "none"
    /\ \E nonce \in DOMAIN gateway.streams :
        LET stream == gateway.streams[nonce]
        IN  /\ stream.clubs # <<>>
            /\ \E count \in (IF stream.next = 0 THEN 1..MaxChunks ELSE {stream.count}) :
                LET d == [club_id |-> Head(stream.clubs), nonce |-> nonce,
                          chunk_index |-> stream.next, chunk_count |-> count,
                          members |-> ChunkMembers(stream.next)]
                    after == IF stream.next = count - 1
                             THEN [clubs |-> Tail(stream.clubs), next |-> 0, count |-> 0]
                             ELSE [stream EXCEPT !.next = @ + 1, !.count = count]
                IN  Commit(onWSMessage([World EXCEPT !.gw.streams[nonce] = after],
                                       Dispatch("CLUB_MEMBERS_CHUNK", 0, d), 1),
                           [op |-> "CLUB_MEMBERS_CHUNK", arg |-> nonce, d |-> d])

\* a club-create timer fires (line 537): the one the field clubCreateTimeout
\* refers to, or one hardReset left running
ClubCreateTimeout ==
    \/ /\ shard.clubCreateTimeout
       /\ Commit(checkReady([World EXCEPT !.sh.clubCreateTimeout = FALSE]),
                 [op |-> "clubCreateTimeout", arg |-> 0])
    \/ /\ orphans > 0
       /\ Commit(checkReady([World EXCEPT !.orph = @ - 1]),
                 [op |-> "clubCreateTimeout", arg |-> 1])

\* the user calls shard.requestClubMembers(clubID)
CallerRequestMembers ==
    /\ \E id \in {ClubOrder[1]} :
          Commit(requestClubMembers(World, <<id>>),
                 [op |-> "requestClubMembers", arg |-> Len(promises) + 1])

\* the timeout of a member request fires (line 486)
RequestTimeout ==
    /\ \E nonce \in reqTimers :
          Commit(requestTimeout([World EXCEPT !.rt = @ \ {nonce}], nonce),
                 [op |-> "requestTimeout", arg |-> nonce])

\* the connection is lost after the handshake
SocketDrop ==
    /\ shard.ws = "OPEN" /\ ~shard.connecting
    /\ Commit(onWSClose(World, 1006, 1), [op |-> "close", arg |-> 1006])

\* the user calls client.disconnect({reconnect: false}) on a shard that is
\* connected
CallerDisconnectFinal ==
    /\ shard.ws = "OPEN" /\ ~shard.connecting
    /\ Commit(clientDisconnect(World, "false", 1),
              [op |-> "disconnect", arg |-> 0, reconnect |-> "false"])

NextClubs ==
    \/ CallerConnect
    \/ CallerDisconnectFinal
    \/ SocketOpen
    \/ SocketDrop
    \/ RecvHello
    \/ RecvReadyClubs
    \/ RecvResumedClubs
    \/ RecvClubCreate
    \/ RecvClubSync
    \/ RecvMembersChunk
    \/ ClubCreateTimeout

SpecClubs == InitClubs /\ [][NextClubs]_vars

(***************************************************************************)
(* The member requests of the caller.  SpecMembers follows them for a bot  *)
(* account without getAllUsers, with autoreconnect off, and for the first  *)
(* club of the account, which READY lists as available or not at all.      *)
(***************************************************************************)
InitMembers ==
    /\ Boot
    /\ options = [autoreconnect |-> FALSE, getAllUsers |-> FALSE, intents |-> {}]
    /\ gateway = [bot |-> TRUE, streams |-> <<>>, syncs |-> {}]

\* the gateway answers an IDENTIFY with READY, listing available clubs
RecvReadyMembers ==
    /\ shard.ws = "OPEN" /\ ~shard.connecting /\ pendingAuth = "identify"
    /\ \E sid \in SessionIds :
        \E clubs \in {<<>>, <<Club(ClubOrder[1], FALSE, TRUE)>>} :
          Commit(onWSMessage(World, ReadyPacket(0, sid, gateway.bot, clubs), 1),
                 [op |-> "READY", arg |-> 0, clubs |-> clubs])

\* a member joins the first club of the account, or its emojis change
RecvClubEvent ==
    /\ shard.ws = "OPEN" /\ ~shard.connecting /\ pendingAuth # "identify"
    /\ \E t \in {"CLUB_MEMBER_ADD", "CLUB_EMOJIS_UPDATE"} :
        LET d == [club_id |-> ClubOrder[1]]
        IN  Commit(onWSMessage(World, Dispatch(t, 0, d), 1),
                   [op |-> t, arg |-> 0, d |-> d])

NextMembers ==
    \/ CallerConnect
    \/ CallerDisconnectFinal
    \/ SocketOpen
    \/ SocketDrop
    \/ RecvHello
    \/ RecvReadyMembers
    \/ RecvResumedClubs
    \/ RecvClubDelete
    \/ RecvClubEvent
    \/ CallerRequestMembers
    \/ RecvMembersChunk
    \/ RequestTimeout

SpecMembers == InitMembers /\ [][NextMembers]_vars

(***************************************************************************)
(* Voice joins.  SpecVoice follows the joins of one club on a shard that   *)
(* connects once: the caller joins, the gateway sends VOICE_SERVER_UPDATE, *)
(* the 10 s timers fire, and the voice session of the club emits "ready",  *)
(* "disconnect" and "error" as its own connection goes.                    *)
(***************************************************************************)
InitVoice ==
    /\ Boot
    /\ options = [autoreconnect |-> FALSE, getAllUsers |-> FALSE, intents |-> {}]
    /\ gateway = [bot |-> TRUE, streams |-> <<>>, syncs |-> {}]

\* the gateway answers the IDENTIFY with READY
RecvReadyVoice ==
    /\ shard.ws = "OPEN" /\ ~shard.connecting /\ pendingAuth = "identify"
    /\ \E sid \in SessionIds :
          Commit(onWSMessage(World, ReadyPacket(0, sid, gateway.bot, <<>>), 1),
                 [op |-> "READY", arg |-> 0, clubs |-> <<>>])

\* the user joins a voice channel of the club once the shard is ready; the
\* channel of the first join is called c1
CallerJoin ==
    /\ shard.ready
    /\ \E clubID \in VoiceClubs,
          channelID \in (IF voice.joins = <<>> THEN {"c1"} ELSE Channels) :
          Commit(joinVoiceChannel(World, clubID, channelID),
                 [op |-> "join", arg |-> 0, club |-> clubID, channel |-> channelID])

\* the gateway sends VOICE_SERVER_UPDATE for the club: after a voice state
\* update, or when the voice server of the club changes
RecvVoiceServerUpdate ==
    /\ shard.ws = "OPEN" /\ ~shard.connecting /\ pendingAuth = "none"
    /\ \E clubID \in VoiceClubs :
        LET d == [club_id |-> clubID]
        IN  Commit(onWSMessage(World, Dispatch("VOICE_SERVER_UPDATE", 0, d), 1),
                   [op |-> "VOICE_SERVER_UPDATE", arg |-> 0, d |-> d])

\* a 10 s timer of join fires
JoinTimeout ==
    /\ \E t \in voice.timers :
          Commit([World EXCEPT !.vc = joinTimeout(@, t.club, t.p)],
                 [op |-> "joinTimeout", arg |-> t.p, club |-> t.club])

\* the session of the club has connected: it sets ready and emits "ready"
SessionReady ==
    /\ \E clubID \in VoiceClubs :
        /\ voice.connections[clubID].ws /\ ~voice.connections[clubID].ready
        /\ Commit([World EXCEPT !.vc =
                      emitSession([@ EXCEPT !.connections[clubID].ready = TRUE],
                                  clubID, "ready", NoError, TRUE)],
                  [op |-> "voiceReady", arg |-> 0, club |-> clubID])

\* the session of the club has lost or closed its connection: it emits
\* "disconnect"
SessionDisconnect ==
    /\ \E clubID \in VoiceClubs :
        /\ voice.connections[clubID].ws \/ voice.connections[clubID].owed
        /\ Commit([World EXCEPT !.vc =
                      emitSession([@ EXCEPT !.connections[clubID].ws = FALSE,
                                            !.connections[clubID].ready = FALSE,
                                            !.connections[clubID].owed = FALSE],
                                  clubID, "disconnect", NoError, TRUE)],
                  [op |-> "voiceDisconnect", arg |-> 0, club |-> clubID])

\* the session of the club emits "error"
SessionError ==
    /\ \E clubID \in VoiceClubs, err \in VoiceErrors, sync \in BOOLEAN :
        /\ voice.connections[clubID].ws
        /\ Commit([World EXCEPT !.vc = emitSession(@, clubID, "error", err, sync)],
                  [op |-> "voiceError", arg |-> 0, club |-> clubID, err |-> err])

NextVoice ==
    \/ CallerConnect
    \/ SocketOpen
    \/ RecvHello
    \/ RecvReadyVoice
    \/ CallerJoin
    \/ RecvVoiceServerUpdate
    \/ JoinTimeout
    \/ SessionReady
    \/ SessionDisconnect
    \/ SessionError

SpecVoice == InitVoice /\ [][NextVoice]_vars

(***************************************************************************)
(* Voice joins across a disconnect of the shard.  SpecVoiceCancel follows  *)
(* the joins of one club while the shard is disconnected by the user or    *)
(* loses its connection, and connects again.                               *)
(***************************************************************************)
NextVoiceCancel ==
    \/ CallerConnect
    \/ CallerDisconnectFinal
    \/ SocketOpen
    \/ SocketDrop
    \/ RecvHello
    \/ RecvReadyVoice
    \/ RecvResumedClubs
    \/ CallerJoin
    \/ RecvVoiceServerUpdate
    \/ JoinTimeout

SpecVoiceCancel == InitVoice /\ [][NextVoiceCancel]_vars


(***************************************************************************)
(* What the last callback put out.                                         *)
(***************************************************************************)
Heartbeat(seq) == [op |-> "HEARTBEAT", d |-> seq]
Identify == [op |-> "IDENTIFY", token |-> Token, presence |-> shard.presence]
Resume(sid, seq) == [op |-> "RESUME", token |-> Token, session_id |-> sid, seq |-> seq]
Error(msg) == [type |-> "error", msg |-> msg]
Disconnected == [type |-> "disconnect", msg |-> ""]

Sends(frames, op) == \E i \in 1..Len(frames) : frames[i].op = op
Errors(ev) == SelectSeq(ev, LAMBDA e : e.type = "error")
ClosedWith(stp, codes) == stp.op = "close" /\ stp.arg \in codes
ZombieError == "Server didn't acknowledge previous heartbeat, possible lost connection"

(***************************************************************************)
(* C1.  Heartbeat zombie detection: when the heartbeat timer fires on a    *)
(* shard whose lastHeartbeatAck is false and that is not resuming, the     *)
(* shard sends no heartbeat; it disconnects with reconnect "auto" (no hard *)
(* reset, and with autoreconnect the shard is re-enqueued at once if a     *)
(* session is held, else a reconnect timer is armed) and emits the error   *)
(* that the server did not acknowledge the previous heartbeat.             *)
(***************************************************************************)
C1_ZombieHeartbeat ==
    [][(step'.op = "heartbeatTimer" /\ ~shard.lastHeartbeatAck
            /\ shard.status # "resuming")
        => /\ sent' = <<>>
           /\ shard'.ws = "null" /\ shard'.status = "disconnected"
           /\ ~shard'.heartbeatInterval
           /\ events' = <<Error(ZombieError), Disconnected>>
           /\ shard'.seq = shard.seq
           /\ IF options.autoreconnect
              THEN IF shard'.sessionID # NULL
                   THEN connectQueue' /\ armed' = 0
                   ELSE armed' = shard.reconnectInterval /\ timers' = timers + 1
              ELSE armed' = 0 /\ timers' = timers /\ connectQueue' = connectQueue]_vars

C1_Witness ==
    /\ step.op = "heartbeatTimer"
    /\ Errors(events) = <<Error(ZombieError)>>
    /\ shard.status = "disconnected"

C3_ResumeOnHello ==
    (step.op = "HELLO" /\ shard.sessionID # NULL)
        => sent = <<Resume(shard.sessionID, shard.seq)>>

C3_HeartbeatOnResumed ==
    step.op = "RESUMED" => sent = <<Heartbeat(shard.seq)>>

C3_Original ==
    /\ C3_ResumeOnHello
    /\ C3_HeartbeatOnResumed
    /\ Sends(sent, "HEARTBEAT") => sinceResume \in {"none", "resumed"}

(***************************************************************************)
(* C3 as amended: after the RESUME no heartbeat is sent until RESUMED or,  *)
(* when the gateway answered INVALID_SESSION and the shard re-identified,  *)
(* READY has been received.                                                *)
(***************************************************************************)
C3_Amended ==
    /\ C3_ResumeOnHello
    /\ C3_HeartbeatOnResumed
    /\ Sends(sent, "HEARTBEAT") => sinceResume # "pending"

C3_Witness ==
    /\ step.op \in {"heartbeatTimer", "HEARTBEAT"}
    /\ sinceResume = "pending"
    /\ shard.sessionID # NULL
    /\ sent = <<>>

(***************************************************************************)
(* C4.  Resume vs identify: the handshake that follows a clean close       *)
(* (1000) which left the sessionId in place sends RESUME; the handshake    *)
(* message sent once INVALID_SESSION is processed is IDENTIFY, and the     *)
(* sequence is 0 then.                                                     *)
(***************************************************************************)
C4_ResumeVsIdentify ==
    /\ (step.op = "HELLO" /\ lastDisc = "clean")
          => (Len(sent) = 1 /\ sent[1].op = "RESUME")
    /\ step.op = "INVALID_SESSION"
          => (Len(sent) = 1 /\ sent[1].op = "IDENTIFY" /\ shard.seq = 0)

C4_Witness ==
    /\ step.op = "HELLO" /\ lastDisc = "clean"
    /\ Sends(sent, "RESUME")

C6_Original ==
    /\ shard.seq = maxS
    /\ \A i \in 1..Len(sent) : sent[i].op = "HEARTBEAT" => sent[i].d = maxS

(***************************************************************************)
(* C6 as amended: the sequence is the s of the packet received last with a *)
(* non-zero s (0 after INVALID_SESSION, a 4007 close or a hard reset), so  *)
(* it does not decrease as long as the s values received do not, and a     *)
(* smaller s received later lowers it; every HEARTBEAT carries the         *)
(* sequence as it is when the heartbeat is sent.                           *)
(***************************************************************************)
C6_Amended ==
    [][/\ (step'.op \in {"EVENT", "READY", "RESUMED"} /\ step'.arg # 0)
              => shard'.seq = step'.arg
       /\ (step'.op \in {"EVENT", "READY", "RESUMED"} /\ step'.arg = 0)
              => shard'.seq = shard.seq
       /\ shard'.seq < shard.seq
              => \/ step'.op \in {"EVENT", "READY", "RESUMED"} /\ step'.arg < shard.seq
                 \/ shard'.seq = 0
       /\ \A i \in 1..Len(sent') :
              sent'[i].op = "HEARTBEAT" => sent'[i].d = shard'.seq]_vars

C6_Witness ==
    /\ step.op \in {"heartbeatTimer", "HEARTBEAT"}
    /\ shard.seq # 0 /\ shard.seq < maxS
    /\ sent = <<Heartbeat(shard.seq)>>

C8_FatalCloses ==
    [][ClosedWith(step', {4010, 4011, 4013, 4014})
        => /\ shard'.sessionID = NULL
           /\ Len(Errors(events')) = 1
           /\ shard'.status = "disconnected" /\ shard'.ws = "null"
           /\ armed' = 0 /\ timers' = timers /\ connectQueue' = connectQueue]_vars

C8_Witness ==
    /\ ClosedWith(step, {4010, 4011, 4013, 4014})
    /\ options.autoreconnect
    /\ Len(Errors(events)) = 1
    /\ shard.sessionID = NULL /\ armed = 0

(***************************************************************************)
(* C9.  Clean close, as claimed: a close with code 1000 emits no error and *)
(* schedules no reconnect, neither by enqueueing the shard nor by a timer. *)
(***************************************************************************)
C9_Original ==
    [][ClosedWith(step', {1000})
        => /\ Errors(events') = <<>>
           /\ armed' = 0 /\ timers' = timers /\ connectQueue' = connectQueue]_vars

(***************************************************************************)
(* C9 as amended: a close with code 1000 emits no error and disconnects    *)
(* with reconnect "auto" like any close that is not fatal: with            *)
(* autoreconnect the shard is enqueued at once when it still holds a       *)
(* sessionId and a reconnect timer is armed otherwise; without             *)
(* autoreconnect nothing is scheduled.                                     *)
(***************************************************************************)
C9_Amended ==
    [][ClosedWith(step', {1000})
        => /\ Errors(events') = <<>>
           /\ shard'.status = "disconnected" /\ shard'.ws = "null"
           /\ IF options.autoreconnect
              THEN IF shard'.sessionID # NULL
                   THEN connectQueue' /\ armed' = 0 /\ timers' = timers
                   ELSE /\ armed' = shard.reconnectInterval /\ timers' = timers + 1
                        /\ connectQueue' = connectQueue
              ELSE armed' = 0 /\ timers' = timers /\ connectQueue' = connectQueue]_vars

C9_Witness ==
    /\ ClosedWith(step, {1000})
    /\ events = <<Disconnected>>
    /\ shard.sessionID # NULL /\ connectQueue

(***************************************************************************)
(* C10.  Session-invalidating closes: a close with code 4003, 4006 or 4009 *)
(* clears sessionId, emits an error and disconnects with reconnect "auto": *)
(* with autoreconnect a timer is armed with the backoff interval as it was *)
(* at the close; and the handshake that follows sends IDENTIFY, not        *)
(* RESUME.                                                                 *)
(***************************************************************************)
C10_SessionInvalidatingCloses ==
    /\ [][ClosedWith(step', {4003, 4006, 4009})
           => /\ shard'.sessionID = NULL
              /\ Len(Errors(events')) = 1
              /\ shard'.seq = shard.seq
              /\ IF options.autoreconnect
                 THEN /\ armed' = shard.reconnectInterval /\ timers' = timers + 1
                      /\ connectQueue' = connectQueue
                 ELSE armed' = 0 /\ timers' = timers /\ connectQueue' = connectQueue]_vars
    /\ []((step.op = "HELLO" /\ lastDisc = "sessionInvalid")
            => (Sends(sent, "IDENTIFY") /\ ~Sends(sent, "RESUME")))

C10_Witness ==
    /\ step.op = "HELLO" /\ lastDisc = "sessionInvalid"
    /\ options.autoreconnect
    /\ sent[1] = Identify

(***************************************************************************)
(* C11.  Invalid sequence close, as claimed: a close with code 4007 sets   *)
(* the sequence to 0, keeps the sessionId the shard held, emits one error  *)
(* and disconnects with reconnect "auto".                                  *)
(***************************************************************************)
C11_Original ==
    [][ClosedWith(step', {4007})
        => /\ shard'.seq = 0
           /\ shard'.sessionID = shard.sessionID
           /\ Errors(events') = <<Error("Invalid sequence number")>>
           /\ shard'.status = "disconnected"]_vars

(***************************************************************************)
(* C11 as amended: a close with code 4007 sets the sequence to 0, emits    *)
(* the error "Invalid sequence number" and disconnects with reconnect      *)
(* "auto".  The sessionId is kept unless connectAttempts has reached       *)
(* maxResumeAttempts, in which case disconnect clears it.  With            *)
(* autoreconnect the shard is enqueued at once when the sessionId was      *)
(* kept and a reconnect timer is armed otherwise.                          *)
(***************************************************************************)
C11_Amended ==
    [][ClosedWith(step', {4007})
        => /\ shard'.seq = 0
           /\ shard'.sessionID =
                 IF shard.connectAttempts >= maxResumeAttempts
                 THEN NULL ELSE shard.sessionID
           /\ Errors(events') = <<Error("Invalid sequence number")>>
           /\ shard'.status = "disconnected" /\ shard'.ws = "null"
           /\ IF options.autoreconnect
              THEN IF shard'.sessionID # NULL
                   THEN connectQueue' /\ armed' = 0 /\ timers' = timers
                   ELSE /\ armed' = shard.reconnectInterval /\ timers' = timers + 1
                        /\ connectQueue' = connectQueue
              ELSE armed' = 0 /\ timers' = timers /\ connectQueue' = connectQueue]_vars

C11_Witness ==
    /\ ClosedWith(step, {4007})
    /\ shard.seq = 0 /\ events = <<Error("Invalid sequence number"), Disconnected>>
    /\ shard.sessionID # NULL /\ connectQueue

(***************************************************************************)
(* The way to "ready" and the member requests.                             *)
(***************************************************************************)
Emits(ev, type) == \E i \in 1..Len(ev) : ev[i].type = type

\* the club gate: every club READY listed unavailable has been created
\* since, or a club-create timer has fired since READY
GatePassed == gate.awaited = {} \/ gate.fired

\* nothing is left to sync and no request for all members is pending
ReadyConditions ==
    /\ shard.clubSyncQueue = <<>>
    /\ shard.unsyncedClubs = 0
    /\ shard.getAllUsersQueue = <<>>
    /\ shard.getAllUsersCount = {}

\* the members of the chunks of a log, in the order fed: of all chunks, or
\* of those whose club was cached when they came
RECURSIVE Fed(_, _)
Fed(log, all) ==
    IF log = <<>> THEN <<>>
    ELSE (IF all \/ Head(log).cached THEN Head(log).members ELSE <<>>)
         \o Fed(Tail(log), all)

(***************************************************************************)
(* C12.  Ready gate: after a READY that lists N > 0 unavailable clubs the  *)
(* shard emits "ready" only once every one of those clubs has been         *)
(* reported available by a CLUB_CREATE or a club-create timer has fired.   *)
(***************************************************************************)
C12_Original ==
    Emits(events, "ready") => GatePassed

(***************************************************************************)
(* C13.  Post-ready gate: a callback that emits "ready" leaves the ready   *)
(* flag set, the sync queue and the get-all-users queue empty,             *)
(* unsyncedClubs 0 and no request for all members pending; "ready" is      *)
(* emitted at most once in a session; and a shard that is connected in a   *)
(* session, past the club gate and with those conditions true has emitted  *)
(* "ready" exactly once in that session.                                   *)
(***************************************************************************)
C13_ReadyOnlyWhenDone ==
    Emits(events, "ready") => (shard.ready /\ ReadyConditions)

C13_AtMostOnce == readyCount <= 1

C13_OnceDone ==
    (/\ shard.ws = "OPEN" /\ shard.status = "ready" /\ shard.sessionID # NULL
     /\ GatePassed /\ ReadyConditions)
        => readyCount = 1

C13_Original ==
    /\ C13_ReadyOnlyWhenDone
    /\ C13_AtMostOnce
    /\ C13_OnceDone

(***************************************************************************)
(* C14.  Member chunk reassembly, as claimed: for a pending request, the   *)
(* chunk with chunk_index >= chunk_count - 1 resolves the promise with the *)
(* members of all chunks fed, in the order fed, clears the timeout of the  *)
(* request and removes its entry; an earlier chunk leaves the promise      *)
(* pending.                                                                *)
(***************************************************************************)
C14_Original ==
    [][(step'.op = "CLUB_MEMBERS_CHUNK"
           /\ step'.arg \in DOMAIN shard.requestMembersPromise)
        => LET n == step'.arg
               d == step'.d
           IN  IF d.chunk_index >= d.chunk_count - 1
               THEN /\ promises'[n] =
                          Resolved(MemberList(Fed(chunkLog[n], TRUE) \o d.members))
                    /\ n \notin reqTimers'
                    /\ n \notin DOMAIN shard'.requestMembersPromise
               ELSE promises'[n] = Pending]_vars

(***************************************************************************)
(* C14 as amended: a chunk of a club that is not in the client's cache is  *)
(* dropped: it neither adds members nor resolves anything.  For a pending  *)
(* request, a chunk of a cached club with chunk_index >= chunk_count - 1   *)
(* resolves the promise with the members of the chunks that were not       *)
(* dropped, in the order fed, clears the timeout and removes the entry; an *)
(* earlier chunk of a cached club adds its members and leaves the promise  *)
(* pending.                                                                *)
(***************************************************************************)
C14_Amended ==
    [][(step'.op = "CLUB_MEMBERS_CHUNK"
           /\ step'.arg \in DOMAIN shard.requestMembersPromise)
        => LET n == step'.arg
               d == step'.d
           IN  IF d.club_id \notin client.clubs
               THEN /\ promises' = promises /\ reqTimers' = reqTimers
                    /\ shard'.requestMembersPromise = shard.requestMembersPromise
               ELSE IF d.chunk_index >= d.chunk_count - 1
               THEN /\ promises'[n] =
                          Resolved(MemberList(Fed(chunkLog[n], FALSE) \o d.members))
                    /\ n \notin reqTimers'
                    /\ n \notin DOMAIN shard'.requestMembersPromise
               ELSE /\ promises'[n] = Pending
                    /\ n \in reqTimers'
                    /\ shard'.requestMembersPromise[n].members =
                          Fed(chunkLog[n], FALSE) \o d.members]_vars

C14_Witness ==
    /\ step.op = "CLUB_MEMBERS_CHUNK"
    /\ step.d.chunk_index = 1 /\ step.d.chunk_count = 2
    /\ promises[step.arg] = Resolved(MemberList(<<0, 1>>))
    /\ step.arg \notin reqTimers

(***************************************************************************)
(* C15.  Member request timeout: when the timeout of a request fires       *)
(* before its final chunk, the promise is resolved with the members        *)
(* received so far and the entry is deleted; a promise is never rejected,  *)
(* and once it is resolved nothing changes it: not a later chunk with its  *)
(* nonce either.                                                           *)
(***************************************************************************)
C15_RequestTimeout ==
    [][/\ step'.op = "requestTimeout"
              => LET n == step'.arg
                 IN  /\ n \in DOMAIN shard.requestMembersPromise
                     /\ promises'[n] =
                           Resolved(MemberList(Fed(chunkLog[n], FALSE)))
                     /\ n \notin DOMAIN shard'.requestMembersPromise
                     /\ n \notin reqTimers'
       /\ \A n \in DOMAIN promises :
              /\ promises'[n].state \in {"pending", "resolved"}
              /\ promises[n].state = "resolved" => promises'[n] = promises[n]
       /\ (step'.op = "CLUB_MEMBERS_CHUNK"
              /\ step'.arg \notin DOMAIN shard.requestMembersPromise)
              => /\ promises' = promises
                 /\ shard'.requestMembersPromise = shard.requestMembersPromise]_vars

C15_Witness ==
    /\ step.op = "CLUB_MEMBERS_CHUNK"
    /\ step.d.chunk_index = 1 /\ step.d.chunk_count = 2
    /\ step.d.club_id \in client.clubs
    /\ promises[step.arg] = Resolved(MemberList(<<0>>))

(***************************************************************************)
(* C16.  Cancellation of member requests: a disconnect resolves the        *)
(* promise of every pending request with the list of members received so   *)
(* far for it, clears the timeout of every request and leaves the table of *)
(* pending requests empty.                                                 *)
(***************************************************************************)
C16_Original ==
    [][(shard.ws # "null" /\ shard'.ws = "null")
        => /\ \A n \in DOMAIN shard.requestMembersPromise :
                 /\ promises'[n] =
                       Resolved(MemberList(shard.requestMembersPromise[n].members))
                 /\ n \notin reqTimers'
           /\ shard'.requestMembersPromise = <<>>]_vars

(***************************************************************************)
(* Voice joins (SpecVoice).                                                *)
(***************************************************************************)
\* the promises of join that are pending
PendingJoins == {p \in DOMAIN voice.joins : voice.joins[p].state = "pending"}
\* the promise p has this state and value after the step
SettledAs(p, state, value) ==
    voice'.joins[p].state = state /\ voice'.joins[p].value = value
\* the step called neither res nor rej of p to any effect
Unsettled(p) ==
    /\ voice'.joins[p].state = voice.joins[p].state
    /\ voice'.joins[p].value = voice.joins[p].value
\* the step was the session of the club of p emitting ev
SessionEmitted(p, op) == step'.op = op /\ step'.club = voice.joins[p].club

\* C17: a join made while the club has no live session, once a
\* VOICE_SERVER_UPDATE for the club arrives, has a session of the club
\* connected with the channel of the join; its promise resolves with the
\* session when the session emits "ready" and rejects when it emits
\* "disconnect" or "error"; the pending entry of the club is then removed
\* and the promise, once settled, stays as it was settled.
C17_Original ==
    [][\A p \in DOMAIN voice.joins :
          /\ p \in PendingJoins /\ voice.joins[p].via = "new" =>
                LET clubID == voice.joins[p].club
                IN  /\ step'.op = "VOICE_SERVER_UPDATE" /\ step'.d.club_id = clubID =>
                          /\ voice'.connections[clubID].exists
                          /\ voice'.connections[clubID].ws
                          /\ voice'.calls = <<[club |-> clubID, method |-> "connect",
                                               arg |-> voice.joins[p].channel]>>
                    /\ voice.joins[p].updated /\ SessionEmitted(p, "voiceReady") =>
                          /\ SettledAs(p, "resolved", clubID)
                          /\ clubID \notin DOMAIN voice'.pendingClubs
                    /\ voice.joins[p].updated /\ SessionEmitted(p, "voiceDisconnect") =>
                          /\ SettledAs(p, "rejected", "Disconnected")
                          /\ clubID \notin DOMAIN voice'.pendingClubs
                    /\ voice.joins[p].updated /\ SessionEmitted(p, "voiceError") =>
                          /\ SettledAs(p, "rejected", step'.err)
                          /\ clubID \notin DOMAIN voice'.pendingClubs
          /\ p \notin PendingJoins => Unsettled(p)]_vars

\* C18: a join that made a pending entry and has seen no
\* VOICE_SERVER_UPDATE for its club keeps its 10 s timer running and its
\* promise pending until that timer fires; the timer's callback rejects
\* the promise with "Voice connection timeout" and the club has no pending
\* entry once it has run.
C18_JoinTimeout ==
    [][\A p \in PendingJoins :
          voice.joins[p].via = "new" /\ ~voice.joins[p].updated =>
              LET clubID == voice.joins[p].club
                  fired == step'.op = "joinTimeout" /\ step'.arg = p
              IN  /\ [p |-> p, club |-> clubID] \in voice.timers
                  /\ fired => /\ SettledAs(p, "rejected", "Voice connection timeout")
                              /\ clubID \notin DOMAIN voice'.pendingClubs
                  /\ ~fired /\ ~voice'.joins[p].updated =>
                          /\ voice'.joins[p] = voice.joins[p]
                          /\ [p |-> p, club |-> clubID] \in voice'.timers]_vars

\* the timer of a join that saw no update has just fired
C18_Witness ==
    /\ step.op = "joinTimeout"
    /\ voice.joins[step.arg].via = "new"
    /\ ~voice.joins[step.arg].updated
    /\ voice.joins[step.arg].state = "rejected"
    /\ voice.joins[step.arg].value = "Voice connection timeout"
    /\ voice.pendingClubs = <<>>

\* C19: join(G, C2) on a club whose voice session is live and ready calls
\* switchChannel(C2) on that session, makes no pending entry and no timer,
\* and returns a promise that is already resolved with the session.
C19_VoiceSwitch ==
    [][step'.op = "join"
       /\ voice.connections[step'.club].exists
       /\ voice.connections[step'.club].ws
       /\ voice.connections[step'.club].ready =>
          /\ voice'.calls = <<[club |-> step'.club, method |-> "switchChannel",
                               arg |-> step'.channel]>>
          /\ voice'.pendingClubs = voice.pendingClubs
          /\ voice'.timers = voice.timers
          /\ voice'.connections[step'.club].listeners =
                 voice.connections[step'.club].listeners
          /\ Len(voice'.joins) = Len(voice.joins) + 1
          /\ SettledAs(Len(voice'.joins), "resolved", step'.club)
          /\ \A p \in DOMAIN voice.joins : Unsettled(p)]_vars

\* a session joined on c1 (the channel of the first join) and ready has
\* just been joined again on c2
C19_Witness ==
    /\ step.op = "join" /\ step.channel = "c2"
    /\ Len(voice.joins) = 2
    /\ voice.joins[1].via = "new" /\ voice.joins[1].state = "resolved"
    /\ voice.joins[2].via = "ready" /\ voice.joins[2].state = "resolved"
    /\ voice.connections[step.club].ready
    /\ voice.connections[step.club].channelID = "c2"
    /\ voice.pendingClubs = <<>> /\ voice.timers = {}

\* the listeners on the session of the club of p that join registered for p
JoinListeners(m, p) ==
    SelectSeq(m.connections[m.joins[p].club].listeners,
              LAMBDA l : l.kind = "join" /\ l.p = p)

\* C20: the promise of a join made on a live session that is not ready
\* stays pending, with its three listeners registered, until the session
\* next emits "ready", "disconnect" or "error"; on "ready" it resolves with
\* the session, on "disconnect" or "error" it rejects; after that event
\* none of its listeners is left on the session and no later event changes
\* the promise.
C20_JoinNotReady ==
    [][\A p \in DOMAIN voice.joins :
          voice.joins[p].via = "live" =>
             IF p \in PendingJoins
             THEN /\ JoinListeners(voice, p) =
                        <<Listener("ready", "join", p), Listener("disconnect", "join", p),
                          Listener("error", "join", p)>>
                  /\ SessionEmitted(p, "voiceReady") =>
                        SettledAs(p, "resolved", voice.joins[p].club)
                  /\ SessionEmitted(p, "voiceDisconnect") =>
                        SettledAs(p, "rejected", "Disconnected")
                  /\ SessionEmitted(p, "voiceError") =>
                        voice'.joins[p].state = "rejected"
                  /\ \/ step'.op \in {"voiceReady", "voiceDisconnect", "voiceError"}
                     \/ voice'.joins[p].state = "pending"
             ELSE /\ JoinListeners(voice, p) = <<>>
                  /\ Unsettled(p)]_vars

\* a join made on a live session that was not ready has just resolved on
\* the session's "ready", and an earlier one was rejected
C20_Witness ==
    /\ step.op = "voiceReady"
    /\ \E p, q \in DOMAIN voice.joins :
          /\ voice.joins[p].via = "live" /\ voice.joins[p].state = "resolved"
          /\ voice.joins[q].via = "live" /\ voice.joins[q].state = "rejected"
    /\ voice.connections[step.club].listeners = <<>>

\* the 10 s timer that join stored in the pending entry of the club
EntryTimer(clubID) == [p |-> voice.pendingClubs[clubID].p, club |-> clubID]
\* the step was the session of the club emitting "ready", "disconnect" or
\* "error"
SessionSpoke(clubID) ==
    step'.op \in {"voiceReady", "voiceDisconnect", "voiceError"} /\ step'.club = clubID

\* the step was a 10 s timer of a join of the club firing
TimerFired(clubID) == step'.op = "joinTimeout" /\ step'.club = clubID

\* C21: every pending entry has its 10 s timer running, so that the entry
\* is gone at the latest when that timer fires, whatever the session does.
C21_Original ==
    \A clubID \in DOMAIN voice.pendingClubs : EntryTimer(clubID) \in voice.timers

\* C21 as the code has it: a pending entry has its timer running until a
\* VOICE_SERVER_UPDATE for the club arrives; the update stops the timer
\* and attaches the three listeners, after which the entry has no time
\* limit and is removed when the session next emits "ready", "disconnect"
\* or "error".  An entry whose timer runs is removed when the timer fires;
\* so is any entry of the club when the timer of an earlier join of that
\* club fires.
C21_Amended ==
    /\ [](\A clubID \in DOMAIN voice.pendingClubs :
            LET entry == voice.pendingClubs[clubID]
            IN  IF entry.timeout
                THEN EntryTimer(clubID) \in voice.timers /\ ~entry.waiting
                ELSE /\ EntryTimer(clubID) \notin voice.timers
                     /\ entry.waiting
                     /\ \A ev \in {"ready", "disconnect", "error"} :
                           Listener(ev, "update", entry.p)
                               \in Elems(voice.connections[clubID].listeners))
    /\ [][\A clubID \in DOMAIN voice.pendingClubs :
            /\ TimerFired(clubID) => clubID \notin DOMAIN voice'.pendingClubs
            /\ ~voice.pendingClubs[clubID].timeout /\ SessionSpoke(clubID) =>
                    clubID \notin DOMAIN voice'.pendingClubs
            /\ ~voice.pendingClubs[clubID].timeout /\ ~SessionSpoke(clubID)
                  /\ ~TimerFired(clubID) =>
                    /\ clubID \in DOMAIN voice'.pendingClubs
                    /\ voice'.pendingClubs[clubID].p = voice.pendingClubs[clubID].p]_vars

\* a pending entry whose timer an update has stopped, on a session that
\* has emitted nothing since
C21_Witness ==
    /\ step.op = "VOICE_SERVER_UPDATE"
    /\ step.d.club_id \in DOMAIN voice.pendingClubs
    /\ ~voice.pendingClubs[step.d.club_id].timeout
    /\ voice.timers = {}

(***************************************************************************)
(* Voice joins across a disconnect of the shard (SpecVoiceCancel).         *)
(***************************************************************************)
\* C22: when the shard is disconnected, every pending voice join is
\* rejected with "Disconnected" and no pending entry is left.
C22_Original ==
    [][shard.ws # "null" /\ shard'.ws = "null" =>
          /\ \A p \in PendingJoins : SettledAs(p, "rejected", "Disconnected")
          /\ voice'.pendingClubs = <<>>]_vars

(***************************************************************************)
(* Client.disconnect (Spec).                                               *)
(***************************************************************************)
\* C23: when client.disconnect(options) returns, the shard has been
\* disconnected (it has no socket, is not ready and, if it had a socket,
\* has emitted "disconnect"), the client is not ready and the connect
\* queue is empty.
C23_ClientDisconnect ==
    [][step'.op = "disconnect" =>
          /\ shard'.ws = "null" /\ ~shard'.ready /\ ~shard'.heartbeatInterval
          /\ shard.ws # "null" => Emits(events', "disconnect")
          /\ ~client'.ready
          /\ ~connectQueue']_vars

\* client.disconnect({reconnect: "auto"}) on a shard that holds a session:
\* the shard asked the manager to connect it again and the queue was
\* emptied after that
C23_Witness ==
    /\ step.op = "disconnect" /\ step.reconnect = "auto"
    /\ options.autoreconnect
    /\ shard.sessionID # NULL
    /\ Emits(events, "disconnect")
    /\ ~connectQueue /\ ~client.ready

\* C24: the payload a shard traces with "debug" for a frame it sends has
\* no token field, and the IDENTIFY or RESUME frame written to the socket
\* carries the token.
C24_TokenRedaction ==
    /\ Len(traces) = Len(sent)
    /\ \A i \in 1..Len(sent) :
          /\ traces[i].op = sent[i].op
          /\ "token" \notin DOMAIN traces[i]
          /\ sent[i].op \in {"IDENTIFY", "RESUME"} =>
                "token" \in DOMAIN sent[i] /\ sent[i].token = Token

\* a RESUME was sent and traced
C24_Witness ==
    /\ Len(sent) = 1 /\ sent[1].op = "RESUME" /\ sent[1].token = Token
    /\ traces = <<[op |-> "RESUME", session_id |-> shard.sessionID, seq |-> shard.seq]>>

\* the step disconnected the shard with reconnect "auto" while the
\* autoreconnect option is on
AutoDisconnect ==
    /\ options.autoreconnect
    /\ shard.ws # "null" /\ shard'.ws = "null"
    /\ \/ step'.op \in {"RECONNECT", "heartbeatTimer", "connectTimeout"}
       \/ step'.op = "close" /\ closeReconnect(step'.arg) = "auto"
\* the shard held a session when the step called disconnect
SessionHeld ==
    /\ shard.sessionID # NULL
    /\ ~(step'.op = "close" /\ step'.arg \in {4003, 4006, 4009})

\* C25: an automatic reconnect of a shard that holds a session puts the
\* shard back in the connect queue at once, with no timer, while
\* connectAttempts is below maxResumeAttempts; with connectAttempts at
\* maxResumeAttempts the session id is dropped and a timer is armed with
\* the backoff interval instead, and the connection that follows sends
\* IDENTIFY on HELLO.
C25_ResumeLimit ==
    [][/\ AutoDisconnect /\ SessionHeld =>
            IF shard.connectAttempts < maxResumeAttempts
            THEN /\ shard'.sessionID = shard.sessionID
                 /\ connectQueue'
                 /\ armed' = 0 /\ timers' = timers
            ELSE /\ shard'.sessionID = NULL
                 /\ connectQueue' = connectQueue
                 /\ armed' = shard.reconnectInterval /\ timers' = timers + 1
       /\ step'.op = "HELLO" /\ shard.sessionID = NULL =>
            /\ sent'[1] = Identify
            /\ ~\E i \in 1..Len(sent') : sent'[i].op = "RESUME"]_vars

\* a second resume attempt in a row was lost and the shard went back to
\* the queue at once, still holding its session
C25_Witness ==
    /\ options.autoreconnect
    /\ step.op = "close" /\ step.arg = 1006
    /\ shard.sessionID # NULL
    /\ shard.connectAttempts = maxResumeAttempts - 1
    /\ connectQueue /\ armed = 0


(***************************************************************************)
(* The batches of member requests of an account with many clubs.           *)
(* SpecBatch follows a bot with getAllUsers whose READY lists MaxIDs clubs *)
(* as unavailable; the clubs then arrive one by one, in order, each larger *)
(* than the member list its CLUB_CREATE carries.  Club ids are snowflakes  *)
(* of 18 digits.                                                           *)
(***************************************************************************)
\* the club ids of the account
Snowflakes ==
    LET digit == <<"0", "1", "2", "3", "4", "5", "6", "7", "8", "9">>
    IN  [k \in 1..MaxIDs |->
            "100000000000000" \o digit[(k \div 100) + 1]
                \o digit[((k \div 10) % 10) + 1] \o digit[(k % 10) + 1]]

\* length of the shortest nonce of requestClubMembers: the 13 digits of
\* Date.now() and "0", the shortest Math.random().toString(36)
NonceLength == 14

\* length of the payload sendWS makes of a GET_CLUB_MEMBERS frame without
\* options: {"op":8,"d":{"club_id":[...],"limit":0,"query":"","nonce":"..."}}
\* with the ids quoted and separated by commas
stringifyLength(frame) ==
    LET RECURSIVE list(_)
        list(ids) ==
            IF ids = <<>> THEN 0
            ELSE IF Len(ids) = 1 THEN Len(ids[1]) + 2
            ELSE LET half == Len(ids) \div 2
                 IN  list(SubSeq(ids, 1, half)) + 1
                         + list(SubSeq(ids, half + 1, Len(ids)))
    IN  59 + NonceLength + list(frame.club_id)

InitBatch ==
    /\ Boot
    /\ options \in [autoreconnect : {FALSE}, getAllUsers : {TRUE}, intents : {{}, MembersIntents}]
    /\ gateway = [bot |-> TRUE, streams |-> <<>>, syncs |-> {}]

\* the gateway answers the IDENTIFY with READY, every club unavailable
RecvReadyBatch ==
    /\ shard.ws = "OPEN" /\ ~shard.connecting /\ pendingAuth = "identify"
    /\ \E sid \in SessionIds :
        LET clubs == [k \in 1..MaxIDs |-> Club(Snowflakes[k], TRUE, FALSE)]
        IN  /\ Len(promises) <= MaxRequests
            /\ Record(onWSMessage(World, ReadyPacket(0, sid, TRUE, clubs), 1),
                      [op |-> "READY", arg |-> 0, clubs |-> clubs])

\* the next club of the account becomes available
RecvClubCreateBatch ==
    /\ shard.ws = "OPEN" /\ ~shard.connecting /\ pendingAuth = "none"
    /\ Cardinality(client.clubs) < MaxIDs
    /\ LET d == Club(Snowflakes[Cardinality(client.clubs) + 1], FALSE, TRUE)
           w == onWSMessage(World, Dispatch("CLUB_CREATE", 0, d), 1)
       IN  /\ Len(w.pr) <= MaxRequests
           /\ Record(w, [op |-> "CLUB_CREATE", arg |-> 0, d |-> d])

\* the last club stays unavailable for the time of the club-create timer
BatchTimeout ==
    /\ shard.clubCreateTimeout
    /\ Cardinality(client.clubs) = MaxIDs - 1
    /\ LET w == checkReady([World EXCEPT !.sh.clubCreateTimeout = FALSE])
       IN  /\ Len(w.pr) <= MaxRequests
           /\ Record(w, [op |-> "clubCreateTimeout", arg |-> 0])

NextBatch ==
    \/ CallerConnect
    \/ SocketOpen
    \/ RecvHello
    \/ RecvReadyBatch
    \/ RecvClubCreateBatch
    \/ BatchTimeout

SpecBatch == InitBatch /\ [][NextBatch]_vars

(***************************************************************************)
(* C26  batches of member requests                                         *)
(***************************************************************************)
\* C26: without intents the club ids given to getClubMembers before ready
\* gather in one queue and leave in one GET_CLUB_MEMBERS frame; the id
\* whose addition would cross the cap sends the queue and starts the next
\* batch, so that no payload is longer than 4096 bytes and every id is in
\* the queue or in one request, once.  With intents every call sends a
\* request for its one club.
C26_Original ==
    LET Occurrences(list, id) == Cardinality({i \in 1..Len(list) : list[i] = id})
        RECURSIVE TimesSent(_, _)
        TimesSent(ns, id) ==
            IF ns = {} THEN 0
            ELSE LET n == CHOOSE x \in ns : TRUE
                 IN  Occurrences(gateway.streams[n].clubs, id) + TimesSent(ns \ {n}, id)
    IN  /\ \A i \in 1..Len(sent) :
              sent[i].op = "GET_CLUB_MEMBERS" => stringifyLength(sent[i]) <= 4096
        /\ options.intents = {} =>
              \A id \in shard.getAllUsersCount :
                  Occurrences(shard.getAllUsersQueue, id)
                      + TimesSent(DOMAIN gateway.streams, id) = 1
        /\ options.intents # {} /\ step.op = "CLUB_CREATE" =>
              /\ Len(sent) = 1
              /\ sent[1].op = "GET_CLUB_MEMBERS"
              /\ sent[1].club_id = <<step.d.id>>

(***************************************************************************)
(* C27  events of a club that is not cached                                *)
(***************************************************************************)
\* C27: a dispatch whose club is not in the cache (CLUB_MEMBER_ADD,
\* CLUB_EMOJIS_UPDATE) makes the shard emit one `debug` and nothing else:
\* no `error`, and the shard and the caches stay as they were.
C27_Original ==
    [][step'.op \in {"CLUB_MEMBER_ADD", "CLUB_EMOJIS_UPDATE"}
         /\ step'.d.club_id \notin client.clubs =>
            /\ Len(events') = 1 /\ events'[1].type = "debug"
            /\ shard' = shard
            /\ client' = client]_vars

(***************************************************************************)
(* The presence of the bot.  SpecPresence is Spec with a caller that edits *)
(* the status at any time.                                                 *)
(***************************************************************************)
\* the user calls client.editStatus("dnd", {name: "chess"})
CallerEditStatus ==
    /\ Commit(clientEditStatus(World, "dnd", "chess"),
              [op |-> "editStatus", arg |-> 0, status |-> "dnd", game |-> "chess"])

NextPresence ==
    \/ Next
    \/ CallerEditStatus

SpecPresence == Init /\ [][NextPresence]_vars

(***************************************************************************)
(* C28  presence on IDENTIFY                                               *)
(***************************************************************************)
\* C28: client.editStatus(status, game) leaves the shard's stored presence
\* with that status and game, and every IDENTIFY the shard sends from then
\* on carries them.
C28_Original ==
    /\ step.op = "editStatus" =>
          shard.presence = [game |-> step.game, status |-> step.status]
    /\ client.presence.status # "offline" =>
          \A i \in 1..Len(sent) :
              sent[i].op = "IDENTIFY" => sent[i].presence = client.presence

(***************************************************************************)
(* C29  bounds of the reconnect interval                                   *)
(***************************************************************************)
\* a hard reset has run: the shard is as its constructor leaves it
HardReset ==
    /\ shard.ws = "null" /\ shard.sessionID = NULL /\ shard.seq = 0
    /\ shard.connectAttempts = 0 /\ shard.reconnectInterval = 1000

\* the last callback armed a reconnect timer for a shard without session
Scheduled == armed > 0 /\ shard.sessionID = NULL /\ shard.ws = "null"

\* C29 as stated: the reconnect interval is 1000 after a hard reset, is
\* within 1000..30000 in every state, and changes only when a reconnect
\* without session is scheduled, to the interval times a factor in [1, 3].
C29_Original ==
    /\ [](shard.reconnectInterval >= 1000 /\ shard.reconnectInterval <= 30000)
    /\ [][shard'.reconnectInterval # shard.reconnectInterval =>
             \/ HardReset'
             \/ /\ Scheduled'
                /\ shard'.reconnectInterval >= shard.reconnectInterval
                /\ shard'.reconnectInterval <= 3 * shard.reconnectInterval]_vars

\* C29: the reconnect interval is 1000 after a hard reset and after READY
\* and RESUMED, is within 1000..30000 in every state, and changes otherwise
\* only when a reconnect without session is scheduled: the timer is armed
\* with the interval, which then becomes the interval times a factor in
\* [1, 3], or 30000 if that is less.
C29_Amended ==
    /\ [](shard.reconnectInterval >= 1000 /\ shard.reconnectInterval <= 30000)
    /\ [][/\ shard'.reconnectInterval # shard.reconnectInterval =>
                \/ HardReset'
                \/ step'.op \in {"READY", "RESUMED"} /\ shard'.reconnectInterval = 1000
                \/ /\ Scheduled' /\ armed' = shard.reconnectInterval
                   /\ \E f \in 1..3 :
                         shard'.reconnectInterval =
                             Min(shard.reconnectInterval * f, 30000)
          /\ Scheduled' /\ shard.sessionID = NULL /\ shard.ws # "null" =>
                /\ armed' = shard.reconnectInterval
                /\ \E f \in 1..3 :
                      shard'.reconnectInterval = Min(shard.reconnectInterval * f, 30000)]_vars

\* a fourth reconnect in a row was scheduled: the timer runs for 27000 ms
\* and the interval has met the cap
C29_Witness ==
    /\ Scheduled /\ armed = 27000
    /\ shard.reconnectInterval = 30000

(***************************************************************************)
(* C30  READY and RESUMED reset the attempts and the interval              *)
(***************************************************************************)
\* C30: every READY and every RESUMED leaves connectAttempts at 0 and the
\* reconnect interval at 1000.
C30_ResetOnSuccess ==
    step.op \in {"READY", "RESUMED"} =>
        shard.connectAttempts = 0 /\ shard.reconnectInterval = 1000

\* READY arrived on a connection made after three reconnects with backoff
C30_Witness ==
    /\ step.op = "READY" /\ step.backoff = 27000
    /\ shard.connectAttempts = 0 /\ shard.reconnectInterval = 1000

(***************************************************************************)
(* C31  lastHeartbeatAck                                                   *)
(***************************************************************************)
\* C31 as stated: a callback that sends a heartbeat stamps
\* lastHeartbeatSent and leaves lastHeartbeatAck false; HEARTBEAT_ACK
\* stamps lastHeartbeatReceived and leaves lastHeartbeatAck true.
C31_Original ==
    /\ Sends(sent, "HEARTBEAT") =>
          "lastHeartbeatSent" \in stamped /\ ~shard.lastHeartbeatAck
    /\ step.op = "HEARTBEAT_ACK" =>
          "lastHeartbeatReceived" \in stamped /\ shard.lastHeartbeatAck

\* C31: every heartbeat sent stamps lastHeartbeatSent; the heartbeat of the
\* timer clears lastHeartbeatAck, the heartbeats after IDENTIFY, on RESUMED
\* and in reply to an op HEARTBEAT leave the flag as it was; HEARTBEAT_ACK
\* sets the flag and stamps lastHeartbeatReceived.
C31_Amended ==
    [][/\ Sends(sent', "HEARTBEAT") =>
            /\ "lastHeartbeatSent" \in stamped'
            /\ IF step'.op = "heartbeatTimer"
               THEN shard.lastHeartbeatAck /\ ~shard'.lastHeartbeatAck
               ELSE /\ step'.op \in {"HELLO", "RESUMED", "HEARTBEAT"}
                    /\ shard'.lastHeartbeatAck = shard.lastHeartbeatAck
       /\ step'.op = "HEARTBEAT_ACK" =>
            "lastHeartbeatReceived" \in stamped' /\ shard'.lastHeartbeatAck]_vars

\* the shard answered an op HEARTBEAT of the gateway and still holds the
\* acknowledgement of its last heartbeat
C31_Witness ==
    /\ step.op = "HEARTBEAT" /\ sent = <<Heartbeat(shard.seq)>>
    /\ "lastHeartbeatSent" \in stamped
    /\ shard.lastHeartbeatAck

(***************************************************************************)
(* The send path with buckets that fire later.  In the specifications      *)
(* above both buckets have tokens and run a function when it is queued.    *)
(* SpecBuckets follows sendWS over buckets that run their functions at any *)
(* later time, in any order, each once, while the socket opens and drops.  *)
(* A function of sendWS is a record: its opcode, its counter i, its        *)
(* waitFor and the number of times it wrote its payload to the socket.     *)
(***************************************************************************)
\* func of sendWS that does not wait for the other bucket
sendWSFunc_noWait(w, id) ==
    LET fn == [w.bk.funcs[id] EXCEPT !.i = @ + 1]
    IN  IF w.sh.ws = "OPEN"
        THEN [w EXCEPT !.bk.funcs[id] = [fn EXCEPT !.writes = @ + 1],
                       !.sent = Append(@, [op |-> fn.op]),
                       !.dbg = Append(@, [op |-> fn.op])]
        ELSE [w EXCEPT !.bk.funcs[id] = fn]

\* func of sendWS, lines 565-573
sendWSFunc(w, id) ==
    LET fn == [w.bk.funcs[id] EXCEPT !.i = @ + 1]
    IN  IF fn.i >= fn.waitFor /\ w.sh.ws = "OPEN"
        THEN [w EXCEPT !.bk.funcs[id] = [fn EXCEPT !.writes = @ + 1],
                       !.sent = Append(@, [op |-> fn.op]),
                       !.dbg = Append(@, [op |-> fn.op])]
        ELSE [w EXCEPT !.bk.funcs[id] = fn]

\* Shard.sendWS(op, data) over buckets that keep the function
sendWSQueue(w, op) ==
    IF w.sh.ws = "OPEN"
    THEN LET id == Len(w.bk.funcs) + 1
             w1 == [w EXCEPT !.bk.funcs =
                        Append(@, [op |-> op, i |-> 0, writes |-> 0,
                                   waitFor |-> IF op = "STATUS_UPDATE" THEN 2 ELSE 1])]
             w2 == IF op = "STATUS_UPDATE"
                   THEN [w1 EXCEPT !.bk.presence = Append(@, id)]
                   ELSE w1
         IN  [w2 EXCEPT !.bk.global = Append(@, id)]
    ELSE w

\* a bucket runs the k-th function of its queue
bucketFire(w, bucket, k) ==
    LET queue == w.bk[bucket]
        rest == [j \in 1..(Len(queue) - 1) |-> IF j < k THEN queue[j] ELSE queue[j + 1]]
    IN  sendWSFunc([w EXCEPT !.bk[bucket] = rest], queue[k])

\* the user sends a status update or a voice state update
CallerSend ==
    /\ Len(buckets.funcs) < MaxSends
    /\ \E op \in {"STATUS_UPDATE", "VOICE_STATE_UPDATE"} :
          Commit(sendWSQueue(World, op), [op |-> "sendWS", arg |-> 0, d |-> op])

\* a bucket has a token for one of its functions
BucketFire ==
    /\ \E bucket \in {"global", "presence"} :
        \E k \in 1..Len(buckets[bucket]) :
          Commit(bucketFire(World, bucket, k),
                 [op |-> "bucket", arg |-> buckets[bucket][k], bucket |-> bucket])

NextBuckets ==
    \/ CallerConnect
    \/ SocketOpen
    \/ SocketClose
    \/ CallerSend
    \/ BucketFire

SpecBuckets == InitMembers /\ [][NextBuckets]_vars

(***************************************************************************)
(* C32  the two buckets of sendWS                                          *)
(***************************************************************************)
\* C32: a STATUS_UPDATE is queued in the presence bucket and in the global
\* bucket, every other opcode in the global bucket only; a payload is
\* written at most once, and it is written in the step in which the last
\* of its buckets runs it, whichever that is, if and only if the socket is
\* open then.
C32_DualBucket ==
        /\ [](\A id \in 1..Len(buckets.funcs) :
                LET fn == buckets.funcs[id]
                    In(queue, n) == IF \E j \in 1..Len(queue) : queue[j] = n THEN 1 ELSE 0
                IN  /\ fn.waitFor = IF fn.op = "STATUS_UPDATE" THEN 2 ELSE 1
                    /\ fn.op # "STATUS_UPDATE" => In(buckets.presence, id) = 0
                    /\ fn.i + In(buckets.global, id) + In(buckets.presence, id)
                          = fn.waitFor
                    /\ fn.writes <= 1
                    /\ fn.writes = 1 => fn.i = fn.waitFor)
        /\ [][step'.op = "bucket" =>
                 LET id == step'.arg
                     last == buckets'.funcs[id].i = buckets'.funcs[id].waitFor
                 IN  /\ buckets'.funcs[id].i = buckets.funcs[id].i + 1
                     /\ IF last /\ shard.ws = "OPEN"
                        THEN /\ sent' = <<[op |-> buckets.funcs[id].op]>>
                             /\ buckets'.funcs[id].writes = 1
                        ELSE /\ sent' = <<>>
                             /\ buckets'.funcs[id].writes = 0]_vars

\* a status update was written when the presence bucket ran it, after the
\* global bucket
C32_Witness ==
    /\ step.op = "bucket" /\ step.bucket = "presence"
    /\ buckets.funcs[step.arg].op = "STATUS_UPDATE"
    /\ buckets.funcs[step.arg].writes = 1
    /\ sent = <<[op |-> "STATUS_UPDATE"]>>

(***************************************************************************)
(* C33  the status of the shard                                            *)
(***************************************************************************)
Statuses == {"disconnected", "connecting", "handshaking", "resuming", "ready"}

\* C33 as stated: connect() moves disconnected to connecting, the open socket
\* connecting to handshaking, HELLO handshaking to identifying without a
\* session and to resuming with one, READY identifying to ready, RESUMED
\* resuming to ready, and the status is one of the six listed.
C33_Original ==
    /\ [](shard.status \in Statuses \cup {"identifying"})
    /\ [][/\ step'.op \in {"connect", "queue"} /\ shard.status = "disconnected"
               => shard'.status = "connecting"
          /\ step'.op = "open" /\ shard.status = "connecting"
               => shard'.status = "handshaking"
          /\ step'.op = "HELLO" /\ shard.status = "handshaking"
               => shard'.status = IF shard.sessionID = NULL THEN "identifying"
                                                            ELSE "resuming"
          /\ step'.op = "READY" /\ shard.status = "identifying"
               => shard'.status = "ready"
          /\ step'.op = "RESUMED" /\ shard.status = "resuming"
               => shard'.status = "ready"]_vars

\* C33, amended: connect() moves disconnected to connecting, the open socket
\* connecting to handshaking; HELLO arrives in handshaking and moves the
\* shard to resuming when a session is held and leaves it in handshaking
\* when none is; READY arrives in handshaking, or after an invalid session
\* in resuming or ready, and leaves the shard ready; RESUMED arrives in
\* resuming and moves it to ready; the status is always one of disconnected,
\* connecting, handshaking, resuming, ready.
C33_Amended ==
    /\ [](shard.status \in Statuses)
    /\ [][/\ step'.op \in {"connect", "queue"} /\ shard.status = "disconnected"
               => shard'.status = "connecting"
          /\ step'.op = "open"
               => shard.status = "connecting" /\ shard'.status = "handshaking"
          /\ step'.op = "HELLO"
               => /\ shard.status = "handshaking"
                  /\ shard'.status = IF shard.sessionID = NULL THEN "handshaking"
                                                               ELSE "resuming"
          /\ step'.op = "READY"
               => /\ shard.status \in {"handshaking", "resuming", "ready"}
                  /\ shard'.status = "ready"
          /\ step'.op = "RESUMED"
               => shard.status = "resuming" /\ shard'.status = "ready"]_vars

\* HELLO arrived with no session held: IDENTIFY was sent and the status is
\* still handshaking
C33_Witness ==
    /\ step.op = "HELLO"
    /\ shard.sessionID = NULL
    /\ Sends(sent, "IDENTIFY")
    /\ shard.status = "handshaking"

(***************************************************************************)
(* C34  op 7, RECONNECT                                                    *)
(***************************************************************************)
\* C34 as stated: RECONNECT disconnects the shard (a disconnect event, the
\* heartbeat timer stopped) with no error event and keeps sessionID and seq;
\* the HELLO of a later handshake is answered with RESUME if a session is
\* held and with IDENTIFY otherwise.
C34_Original ==
    [][/\ step'.op = "RECONNECT" =>
             /\ Errors(events') = <<>>
             /\ Len(SelectSeq(events', LAMBDA e : e.type = "disconnect")) = 1
             /\ ~shard'.heartbeatInterval
             /\ shard'.sessionID = shard.sessionID
             /\ shard'.seq = shard.seq
       /\ step'.op = "HELLO" =>
             Sends(sent', IF shard.sessionID # NULL THEN "RESUME" ELSE "IDENTIFY")]_vars

\* C34, amended: RECONNECT disconnects the shard with no error event and
\* keeps seq; it keeps sessionID while connectAttempts is below
\* maxResumeAttempts and drops it otherwise; the HELLO of a later handshake
\* is answered with RESUME if a session is held then and with IDENTIFY
\* otherwise.
C34_Amended ==
    [][/\ step'.op = "RECONNECT" =>
             /\ Errors(events') = <<>>
             /\ Len(SelectSeq(events', LAMBDA e : e.type = "disconnect")) = 1
             /\ ~shard'.heartbeatInterval
             /\ shard'.sessionID = IF shard.connectAttempts >= maxResumeAttempts
                                   THEN NULL ELSE shard.sessionID
             /\ shard'.seq = shard.seq
       /\ step'.op = "HELLO" =>
             Sends(sent', IF shard.sessionID # NULL THEN "RESUME" ELSE "IDENTIFY")]_vars

\* RECONNECT arrived on the second resume attempt in a row: the session was
\* dropped, seq kept
C34_Witness ==
    /\ step.op = "RECONNECT"
    /\ shard.connectAttempts = maxResumeAttempts
    /\ shard.sessionID = NULL
    /\ shard.seq > 0

(***************************************************************************)
(* C35  disconnect with reconnect false and with reconnect true           *)
(***************************************************************************)
\* C35 as stated: disconnect on a connected shard (socket open, HELLO
\* received) leaves the status disconnected, the heartbeat timer cleared,
\* one disconnect event and no reconnect scheduled; with reconnect false it
\* leaves seq 0, no session, connectAttempts 0 and reconnectInterval 1000,
\* with reconnect true it leaves seq and sessionID unchanged.
C35_Original ==
    [][step'.op = "disconnect" /\ step'.reconnect \in {"false", "true"}
         /\ shard.ws = "OPEN" /\ ~shard.connecting =>
           /\ shard'.status = "disconnected" /\ shard'.ws = "null"
           /\ ~shard'.heartbeatInterval
           /\ Len(SelectSeq(events', LAMBDA e : e.type = "disconnect")) = 1
           /\ armed' = 0 /\ ~connectQueue'
           /\ IF step'.reconnect = "false"
              THEN /\ shard'.seq = 0 /\ shard'.sessionID = NULL
                   /\ shard'.connectAttempts = 0
                   /\ shard'.reconnectInterval = 1000
              ELSE /\ shard'.seq = shard.seq
                   /\ shard'.sessionID = shard.sessionID]_vars

\* C35, amended: as C35, but with reconnect true the session is kept only
\* while connectAttempts is below maxResumeAttempts (as it is on a shard
\* that is ready) and dropped otherwise.
C35_Amended ==
    [][step'.op = "disconnect" /\ step'.reconnect \in {"false", "true"}
         /\ shard.ws = "OPEN" /\ ~shard.connecting =>
           /\ shard'.status = "disconnected" /\ shard'.ws = "null"
           /\ ~shard'.heartbeatInterval
           /\ Len(SelectSeq(events', LAMBDA e : e.type = "disconnect")) = 1
           /\ armed' = 0 /\ ~connectQueue'
           /\ IF step'.reconnect = "false"
              THEN /\ shard'.seq = 0 /\ shard'.sessionID = NULL
                   /\ shard'.connectAttempts = 0
                   /\ shard'.reconnectInterval = 1000
              ELSE /\ shard'.seq = shard.seq
                   /\ shard'.sessionID = IF shard.connectAttempts >= maxResumeAttempts
                                         THEN NULL ELSE shard.sessionID
                   /\ shard.status = "ready" => shard'.sessionID = shard.sessionID]_vars

\* disconnect with reconnect true on a ready shard: session and seq kept
C35_Witness ==
    /\ step.op = "disconnect" /\ step.reconnect = "true"
    /\ shard.status = "disconnected" /\ shard.ws = "null"
    /\ shard.sessionID # NULL /\ shard.seq > 0
    /\ Len(SelectSeq(events, LAMBDA e : e.type = "disconnect")) = 1

(***************************************************************************)
(* C36  the ready flag and the status                                      *)
(***************************************************************************)
\* C36: whenever the ready flag is set the status is ready and preReady is
\* set, and a callback that emits ready leaves the shard with an open socket
\* on which READY or RESUMED has been received (status ready), also when
\* the club-create timer of an earlier connection fires.
C36_Original ==
    /\ shard.ready => shard.status = "ready" /\ shard.preReady
    /\ Emits(events, "ready") => shard.ws = "OPEN" /\ shard.status = "ready"

(***************************************************************************)
(* C39  connect without a token.  SpecToken is Spec for a client that was  *)
(* constructed with a token or without one.                                *)
(***************************************************************************)
InitToken ==
    /\ \E token \in {Token, NULL} : BootAs(token)
    /\ options \in [autoreconnect : BOOLEAN, getAllUsers : {FALSE}, intents : {{}}]
    /\ gateway = [bot |-> TRUE, streams |-> <<>>, syncs |-> {}]

SpecToken == InitToken /\ [][Next]_vars

\* C39: connect() on a disconnected shard that has no token opens no socket,
\* emits the error "Token not specified" and leaves connecting false and
\* the status disconnected.
C39_Original ==
    [][step'.op = "connect" /\ client.token = NULL /\ shard.ws = "null" =>
           /\ shard'.ws = "null"
           /\ Errors(events') = <<Error("Token not specified")>>
           /\ ~shard'.connecting
           /\ shard'.status = "disconnected"]_vars

(***************************************************************************)
(* C40  getClubMembers called by the user.  SpecIntents follows a bot      *)
(* without getAllUsers whose intents are not given, or given without or    *)
(* with clubMembers, and a user who calls shard.getClubMembers for a       *)
(* cached club.                                                            *)
(***************************************************************************)
InitIntents ==
    /\ Boot
    /\ options \in [autoreconnect : {FALSE}, getAllUsers : {FALSE},
                    intents : {{}, {"clubs"}, MembersIntents}]
    /\ gateway = [bot |-> TRUE, streams |-> <<>>, syncs |-> {}]

\* the user calls shard.getClubMembers(clubID)
CallerGetMembers ==
    /\ \E id \in client.clubs :
        LET w == getClubMembers(World, id)
        IN  Commit(w, [op |-> "getClubMembers", arg |-> id, threw |-> w.threw])

NextIntents ==
    \/ CallerConnect
    \/ CallerDisconnectFinal
    \/ SocketOpen
    \/ RecvHello
    \/ RecvReadyClubs
    \/ RecvMembersChunk
    \/ ClubCreateTimeout
    \/ CallerGetMembers

SpecIntents == InitIntents /\ [][NextIntents]_vars

\* C40: a call of getClubMembers that throws leaves the set of clubs with a
\* request for all members pending, the queue of club ids and its length
\* as they were.
C40_Original ==
    [][step'.op = "getClubMembers" /\ step'.threw # NoError =>
           /\ shard'.getAllUsersCount = shard.getAllUsersCount
           /\ shard'.getAllUsersQueue = shard.getAllUsersQueue
           /\ shard'.getAllUsersLength = shard.getAllUsersLength]_vars

(***************************************************************************)
(* C37  two joins of one club before any session exists                    *)
(***************************************************************************)
\* C37: when the 10 s timer of a join fires while the pending entry of its
\* club is that of a later join, the entry is left as it was.
C37_Original ==
    [][step'.op = "joinTimeout" /\ step'.club \in DOMAIN voice.pendingClubs
          /\ voice.pendingClubs[step'.club].p # step'.arg =>
             /\ step'.club \in DOMAIN voice'.pendingClubs
             /\ voice'.pendingClubs[step'.club] = voice.pendingClubs[step'.club]]_vars

(***************************************************************************)
(* C38  no reconnect after disconnect({reconnect: false})                  *)
(***************************************************************************)
\* C38: from a call of disconnect({reconnect: false}) until connect() is
\* called again the shard is not in the connect queue and has no socket,
\* also when a reconnect timer armed by an earlier close is still running.
C38_Original ==
    explicitOff => ~connectQueue /\ shard.ws = "null"

====
